---- MODULE Spec2Model ----
(***************************************************************************)
(* The Arc* corner detection kernel (src/src/detector.rs) and the event    *)
(* type with its distance and likeness utilities (src/src/sae_types.rs).   *)
(*                                                                         *)
(* Conventions.                                                            *)
(*  - Rust arrays and slices are functions over 0..len-1, as in the source.*)
(*  - Option<T> is a sequence of length 0 (None) or 1 (Some).              *)
(*  - An f32 is the exact rational [num, den]: every f32 operation the     *)
(*    model performs is on integers below 2^24 and their quotients, where  *)
(*    the conversions u32 -> f32 and the subtractions are exact; the       *)
(*    quotient is kept unrounded. 0/0 is NaN, [num |-> 0, den |-> 0].      *)
(*  - A panic (arithmetic overflow in a build with overflow checks, an     *)
(*    index outside the matrix, unreachable!()) is the outcome "panicked". *)
(***************************************************************************)
EXTENDS Integers, Sequences, FiniteSets, TLC

VARIABLES
    sae,        \* the timestamp surface, owned by the caller: [nrows, ncols, data]
    evt,        \* the caller's event (SaeEvent), handed to the kernel by reference
    other,      \* a second event of the caller, for the distance and likeness utilities
    ret,        \* what the last call gave back: [op, status, value]
    snapshot,   \* history: the surface as the caller first held it
    ring,       \* the slice handed to find_freshest_in_circle and arcstar_expand
    eng,        \* a running arcstar_expand: its position, its locals, its selections
    stage       \* a running arcstar_is_event_corner: its position and its locals

vars == <<sae, evt, other, ret, snapshot, ring, eng, stage>>

(***************************************************************************)
(* Bounds of the model.                                                    *)
(***************************************************************************)
\* generated surfaces have 0..MaxDim rows and 0..MaxDim columns
MaxDim == 10
\* generated surfaces hold timestamps 0..MaxTime
MaxTime == 2
\* the utilities are tried on the coordinates 0..MaxCoord and on large ones
MaxCoord == 2

(***************************************************************************)
(* sae_types.rs: the types.                                                *)
(***************************************************************************)
\* u16::MAX, the largest row or col of an event
U16_MAX == 65535
\* SaeTime::max_value(). SaeTime is u32; TLC's integers are 32-bit signed, so
\* the top of the timestamp domain is 2^31 - 1 here. The kernel only compares
\* against it (it is the initial segment_oldest).
SaeTime_max_value == 2147483647
NORM_DESCRIPTOR_LEN == 36

None == <<>>
Some(x) == <<x>>
is_some(o) == Len(o) = 1
is_none(o) == Len(o) = 0
unwrap(o) == o[1]

\* an f32 holding the integer n
F32(n) == [num |-> n, den |-> 1]
NaN == [num |-> 0, den |-> 0]
\* a / b on f32 values holding the integers a and b
F32Div(a, b) == IF b = 0 THEN NaN ELSE [num |-> a, den |-> b]
\* 1.0f32 - q
F32OneMinus(q) == IF q = NaN THEN NaN ELSE [num |-> q.den - q.num, den |-> q.den]

SaeEvent(row, col, polarity, timestamp, norm_descriptor) ==
    [row |-> row, col |-> col, polarity |-> polarity,
     timestamp |-> timestamp, norm_descriptor |-> norm_descriptor]

\* SaeEvent::default / SaeEvent::new
SaeEvent_new == SaeEvent(0, 0, 0, 0, None)

\* #[derive(Clone)]: a deep copy, the boxed descriptor included
Clone(e) ==
    SaeEvent(e.row, e.col, e.polarity, e.timestamp,
             IF is_some(e.norm_descriptor)
             THEN Some([i \in 0..(NORM_DESCRIPTOR_LEN - 1) |-> unwrap(e.norm_descriptor)[i]])
             ELSE None)

\* SaeMatrix: DMatrix<SaeTime>, with shape() and indexing by (row, col)
\* data maps every (row, col) of Cells(nrows, ncols) to its timestamp
Cells(nrows, ncols) == (0..(nrows - 1)) \X (0..(ncols - 1))
SaeMatrix(nrows, ncols, data) == [nrows |-> nrows, ncols |-> ncols, data |-> data]

\* DMatrix's Index<(usize, usize)> asserts the index is inside the shape. a and
\* b come from an i32 cast to usize: a negative one is far above any shape.
InShape(sae_pol, a, b) ==
    a >= 0 /\ a < sae_pol.nrows /\ b >= 0 /\ b < sae_pol.ncols

(***************************************************************************)
(* detector.rs: constants and offset tables.                               *)
(***************************************************************************)
CIRCLE3_DIM == 16
CIRCLE3_GEN ==
    << <<0, 3>>, <<1, 3>>, <<2, 2>>, <<3, 1>>,
       <<3, 0>>, <<3, -1>>, <<2, -2>>, <<1, -3>>,
       <<0, -3>>, <<-1, -3>>, <<-2, -2>>, <<-3, -1>>,
       <<-3, 0>>, <<-3, 1>>, <<-2, 2>>, <<-1, 3>> >>
CIRCLE3_MIN_ARC_LEN == 3
CIRCLE3_MAX_ARC_LEN == 6

CIRCLE4_DIM == 20
CIRCLE4_GEN ==
    << <<0, 4>>, <<1, 4>>, <<2, 3>>, <<3, 2>>,
       <<4, 1>>, <<4, 0>>, <<4, -1>>, <<3, -2>>,
       <<2, -3>>, <<1, -4>>, <<0, -4>>, <<-1, -4>>,
       <<-2, -3>>, <<-3, -2>>, <<-4, -1>>, <<-4, 0>>,
       <<-4, 1>>, <<-3, 2>>, <<-2, 3>>, <<-1, 4>> >>
CIRCLE4_MIN_ARC_LEN == 4
CIRCLE4_MAX_ARC_LEN == 8

BORDER_INSET == 4

\* 2^w of usize. w is 32 or 64 on the targets and TLC's integers are 32-bit
\* signed, so the model takes w = 30: the kernel reads a wrapped difference only
\* to compare a u16 coordinate with it, and 2^30 - 4 is above U16_MAX as well.
USIZE_MODULUS == 1073741824

\* a - b on usize: with overflow checks (a debug build) an underflow panics,
\* without them (a release build) it wraps
usize_sub(overflow_checks, a, b) ==
    IF a >= b THEN [panic |-> FALSE, val |-> a - b]
    ELSE IF overflow_checks THEN [panic |-> TRUE, val |-> 0]
    ELSE [panic |-> FALSE, val |-> USIZE_MODULUS + a - b]

(***************************************************************************)
(* Neighborhood sampler.                                                   *)
(***************************************************************************)
NoVals == [i \in {} |-> 0]

\* the values at center + offset, in table order; the first sample outside the
\* matrix panics
circle_vals_for_point(sae_pol, row, col, gen, dim) ==
    IF \A i \in 0..(dim - 1) :
          InShape(sae_pol, gen[i + 1][1] + row, gen[i + 1][2] + col)
    THEN [panic |-> FALSE,
          vals |-> [i \in 0..(dim - 1) |->
                      sae_pol.data[<<gen[i + 1][1] + row, gen[i + 1][2] + col>>]]]
    ELSE [panic |-> TRUE, vals |-> NoVals]

\* c3_vals_for_point adding the offsets to the wrong axes
c3_vals_for_point_transposed(sae_pol, row, col) ==
    IF \A i \in 0..(CIRCLE3_DIM - 1) :
          InShape(sae_pol, CIRCLE3_GEN[i + 1][2] + row, CIRCLE3_GEN[i + 1][1] + col)
    THEN [panic |-> FALSE,
          vals |-> [i \in 0..(CIRCLE3_DIM - 1) |->
                      sae_pol.data[<<CIRCLE3_GEN[i + 1][2] + row,
                                     CIRCLE3_GEN[i + 1][1] + col>>]]]
    ELSE [panic |-> TRUE, vals |-> NoVals]

c3_vals_for_point(sae_pol, row, col) ==
    circle_vals_for_point(sae_pol, row, col, CIRCLE3_GEN, CIRCLE3_DIM)

c4_vals_for_point(sae_pol, row, col) ==
    circle_vals_for_point(sae_pol, row, col, CIRCLE4_GEN, CIRCLE4_DIM)

(***************************************************************************)
(* find_freshest_in_circle: the loop over i, carrying (newest_idx,         *)
(* newest_val).                                                            *)
(***************************************************************************)
RECURSIVE find_freshest_loop(_, _, _, _, _)
find_freshest_loop(circle_vals, len, i, newest_idx, newest_val) ==
    IF i >= len THEN [idx |-> newest_idx, val |-> newest_val]
    ELSE IF circle_vals[i] > newest_val
         THEN find_freshest_loop(circle_vals, len, i + 1, i, circle_vals[i])
         ELSE find_freshest_loop(circle_vals, len, i + 1, newest_idx, newest_val)

\* find_freshest_in_circle updating on >= instead of >
RECURSIVE find_freshest_loop_ge(_, _, _, _, _)
find_freshest_loop_ge(circle_vals, len, i, newest_idx, newest_val) ==
    IF i >= len THEN [idx |-> newest_idx, val |-> newest_val]
    ELSE IF circle_vals[i] >= newest_val
         THEN find_freshest_loop_ge(circle_vals, len, i + 1, i, circle_vals[i])
         ELSE find_freshest_loop_ge(circle_vals, len, i + 1, newest_idx, newest_val)

find_freshest_in_circle_last(circle_vals, len) ==
    find_freshest_loop_ge(circle_vals, len, 0, 0, 0)

find_freshest_in_circle(circle_vals, len) ==
    find_freshest_loop(circle_vals, len, 0, 0, 0)

(***************************************************************************)
(* arcstar_expand. The locals of the function are the record st.           *)
(***************************************************************************)
\* expand_init with segment_oldest starting at 0
expand_init_zero(circle_vals, circle_dim, min_arc_size, newest_idx) ==
    LET cw_idx == (newest_idx + 1) % circle_dim
        ccw_idx == (newest_idx + (circle_dim - 1)) % circle_dim
    IN [cw_idx |-> cw_idx, ccw_idx |-> ccw_idx,
        arc_cw_val |-> circle_vals[cw_idx], arc_ccw_val |-> circle_vals[ccw_idx],
        arc_cw_oldest |-> circle_vals[cw_idx], arc_ccw_oldest |-> circle_vals[ccw_idx],
        segment_oldest |-> 0,
        freshest_arc_size |-> min_arc_size]

expand_init(circle_vals, circle_dim, min_arc_size, newest_idx) ==
    LET cw_idx == (newest_idx + 1) % circle_dim
        ccw_idx == (newest_idx + (circle_dim - 1)) % circle_dim
    IN [cw_idx |-> cw_idx, ccw_idx |-> ccw_idx,
        arc_cw_val |-> circle_vals[cw_idx], arc_ccw_val |-> circle_vals[ccw_idx],
        arc_cw_oldest |-> circle_vals[cw_idx], arc_ccw_oldest |-> circle_vals[ccw_idx],
        segment_oldest |-> SaeTime_max_value,
        freshest_arc_size |-> min_arc_size]

\* "Expand arc cw": move the cursor, read, update the oldest item in the arc
expand_cw(circle_vals, circle_dim, st) ==
    LET cw_idx == (st.cw_idx + 1) % circle_dim
        arc_cw_val == circle_vals[cw_idx]
    IN [st EXCEPT !.cw_idx = cw_idx, !.arc_cw_val = arc_cw_val,
                  !.arc_cw_oldest = IF arc_cw_val < st.arc_cw_oldest
                                    THEN arc_cw_val ELSE st.arc_cw_oldest]

\* expand_ccw moving its cursor clockwise
expand_ccw_forward(circle_vals, circle_dim, st) ==
    LET ccw_idx == (st.ccw_idx + 1) % circle_dim
        arc_ccw_val == circle_vals[ccw_idx]
    IN [st EXCEPT !.ccw_idx = ccw_idx, !.arc_ccw_val = arc_ccw_val,
                  !.arc_ccw_oldest = IF arc_ccw_val < st.arc_ccw_oldest
                                     THEN arc_ccw_val ELSE st.arc_ccw_oldest]

\* "Expand arc ccw"
expand_ccw(circle_vals, circle_dim, st) ==
    LET ccw_idx == (st.ccw_idx + (circle_dim - 1)) % circle_dim
        arc_ccw_val == circle_vals[ccw_idx]
    IN [st EXCEPT !.ccw_idx = ccw_idx, !.arc_ccw_val = arc_ccw_val,
                  !.arc_ccw_oldest = IF arc_ccw_val < st.arc_ccw_oldest
                                     THEN arc_ccw_val ELSE st.arc_ccw_oldest]

\* one iteration of the first loop (1..min_arc_size)
bootstrap_step(circle_vals, circle_dim, st) ==
    IF st.arc_cw_val > st.arc_ccw_val
    THEN expand_cw(circle_vals, circle_dim,
                   [st EXCEPT !.segment_oldest =
                       IF st.arc_cw_oldest < st.segment_oldest
                       THEN st.arc_cw_oldest ELSE st.segment_oldest])
    ELSE expand_ccw(circle_vals, circle_dim,
                    [st EXCEPT !.segment_oldest =
                        IF st.arc_ccw_oldest < st.segment_oldest
                        THEN st.arc_ccw_oldest ELSE st.segment_oldest])

\* growth_step recording the arc length without the test against segment_oldest
growth_step_untested(circle_vals, circle_dim, st, iteration) ==
    IF st.arc_cw_val > st.arc_ccw_val
    THEN expand_cw(circle_vals, circle_dim,
                   [st EXCEPT !.freshest_arc_size = iteration + 1,
                              !.segment_oldest =
                                  IF st.arc_cw_oldest < st.segment_oldest
                                  THEN st.arc_cw_oldest ELSE st.segment_oldest])
    ELSE expand_ccw(circle_vals, circle_dim,
                    [st EXCEPT !.freshest_arc_size = iteration + 1,
                               !.segment_oldest =
                                   IF st.arc_ccw_oldest < st.segment_oldest
                                   THEN st.arc_ccw_oldest ELSE st.segment_oldest])

\* growth_step testing > segment_oldest instead of >=
growth_step_strict(circle_vals, circle_dim, st, iteration) ==
    IF st.arc_cw_val > st.arc_ccw_val
    THEN expand_cw(circle_vals, circle_dim,
                   IF st.arc_cw_val > st.segment_oldest
                   THEN [st EXCEPT !.freshest_arc_size = iteration + 1,
                                   !.segment_oldest =
                                       IF st.arc_cw_oldest < st.segment_oldest
                                       THEN st.arc_cw_oldest ELSE st.segment_oldest]
                   ELSE st)
    ELSE expand_ccw(circle_vals, circle_dim,
                    IF st.arc_ccw_val > st.segment_oldest
                    THEN [st EXCEPT !.freshest_arc_size = iteration + 1,
                                    !.segment_oldest =
                                        IF st.arc_ccw_oldest < st.segment_oldest
                                        THEN st.arc_ccw_oldest ELSE st.segment_oldest]
                    ELSE st)

\* one iteration of the second loop (min_arc_size..circle_dim)
growth_step(circle_vals, circle_dim, st, iteration) ==
    IF st.arc_cw_val > st.arc_ccw_val
    THEN expand_cw(circle_vals, circle_dim,
                   IF st.arc_cw_val >= st.segment_oldest
                   THEN [st EXCEPT !.freshest_arc_size = iteration + 1,
                                   !.segment_oldest =
                                       IF st.arc_cw_oldest < st.segment_oldest
                                       THEN st.arc_cw_oldest ELSE st.segment_oldest]
                   ELSE st)
    ELSE expand_ccw(circle_vals, circle_dim,
                    IF st.arc_ccw_val >= st.segment_oldest
                    THEN [st EXCEPT !.freshest_arc_size = iteration + 1,
                                    !.segment_oldest =
                                        IF st.arc_ccw_oldest < st.segment_oldest
                                        THEN st.arc_ccw_oldest ELSE st.segment_oldest]
                    ELSE st)

RECURSIVE bootstrap_loop(_, _, _, _, _)
bootstrap_loop(circle_vals, circle_dim, min_arc_size, st, iteration) ==
    IF iteration >= min_arc_size THEN st
    ELSE bootstrap_loop(circle_vals, circle_dim, min_arc_size,
                        bootstrap_step(circle_vals, circle_dim, st), iteration + 1)

RECURSIVE growth_loop(_, _, _, _)
growth_loop(circle_vals, circle_dim, st, iteration) ==
    IF iteration >= circle_dim THEN st
    ELSE growth_loop(circle_vals, circle_dim,
                     growth_step(circle_vals, circle_dim, st, iteration), iteration + 1)

\* arcstar_expand returning after the first loop
arcstar_expand_bootstrap_only(circle_vals, circle_dim, min_arc_size, newest_idx) ==
    bootstrap_loop(circle_vals, circle_dim, min_arc_size,
                   expand_init(circle_vals, circle_dim, min_arc_size, newest_idx),
                   1).freshest_arc_size

arcstar_expand(circle_vals, circle_dim, min_arc_size, newest_idx) ==
    growth_loop(circle_vals, circle_dim,
                bootstrap_loop(circle_vals, circle_dim, min_arc_size,
                               expand_init(circle_vals, circle_dim, min_arc_size, newest_idx),
                               1),
                min_arc_size).freshest_arc_size

(***************************************************************************)
(* arcstar_check_for_point.                                                *)
(***************************************************************************)
\* the acceptance test of the Arc* pseudocode in the module documentation:
\* (Lmin <= newest_segment_size && newest_segment_size <= Lmax)
\*     || Lmin <= Length(C \ Anew) <= Lmax
documented_arc_valid(circle_dim, min_arc_len, max_arc_len, newest_segment_size) ==
    (min_arc_len <= newest_segment_size /\ newest_segment_size <= max_arc_len) \/
        (min_arc_len <= circle_dim - newest_segment_size /\
            circle_dim - newest_segment_size <= max_arc_len)

\* c3_arc_valid without the complement clause
c3_arc_valid_no_complement(freshest_c3_segment_size) ==
    freshest_c3_segment_size <= CIRCLE3_MAX_ARC_LEN

\* c3_arc_valid without the upper end of the complement clause
c3_arc_valid_no_upper_end(freshest_c3_segment_size) ==
    (freshest_c3_segment_size <= CIRCLE3_MAX_ARC_LEN) \/
        (freshest_c3_segment_size >= (CIRCLE3_DIM - CIRCLE3_MAX_ARC_LEN))

c3_arc_valid(freshest_c3_segment_size) ==
    (freshest_c3_segment_size <= CIRCLE3_MAX_ARC_LEN) \/
        ((freshest_c3_segment_size >= (CIRCLE3_DIM - CIRCLE3_MAX_ARC_LEN)) /\
            (freshest_c3_segment_size <= (CIRCLE3_DIM - CIRCLE3_MIN_ARC_LEN)))

\* c4_arc_valid without the complement clause
c4_arc_valid_no_complement(freshest_c4_segment_size) ==
    freshest_c4_segment_size <= CIRCLE4_MAX_ARC_LEN

c4_arc_valid(freshest_c4_segment_size) ==
    (freshest_c4_segment_size <= CIRCLE4_MAX_ARC_LEN) \/
        ((freshest_c4_segment_size >= (CIRCLE4_DIM - CIRCLE4_MAX_ARC_LEN)) /\
            (freshest_c4_segment_size <= (CIRCLE4_DIM - CIRCLE4_MIN_ARC_LEN)))

\* norm = 1.0f32 - (freshest_seg_val - (val as f32)) / freshest_seg_val
descriptor_norm(freshest_seg_val, val) ==
    F32OneMinus(F32Div(freshest_seg_val - val, freshest_seg_val))

\* compute_descriptor walking both rings from index 0
compute_descriptor_unrotated(c3_vals, freshest_c3, c4_vals, freshest_c4) ==
    LET freshest_seg_val == IF freshest_c3.val >= freshest_c4.val
                            THEN freshest_c3.val ELSE freshest_c4.val
    IN [desc_idx \in 0..(NORM_DESCRIPTOR_LEN - 1) |->
          IF desc_idx < CIRCLE3_DIM
          THEN descriptor_norm(freshest_seg_val, c3_vals[desc_idx % CIRCLE3_DIM])
          ELSE descriptor_norm(freshest_seg_val,
                               c4_vals[(desc_idx - CIRCLE3_DIM) % CIRCLE4_DIM])]

\* compute_descriptor normalising by the radius-3 maximum alone
compute_descriptor_c3_scale(c3_vals, freshest_c3, c4_vals, freshest_c4) ==
    LET freshest_seg_val == freshest_c3.val
    IN [desc_idx \in 0..(NORM_DESCRIPTOR_LEN - 1) |->
          IF desc_idx < CIRCLE3_DIM
          THEN descriptor_norm(freshest_seg_val,
                               c3_vals[(desc_idx + freshest_c3.idx) % CIRCLE3_DIM])
          ELSE descriptor_norm(freshest_seg_val,
                               c4_vals[((desc_idx - CIRCLE3_DIM) + freshest_c4.idx) % CIRCLE4_DIM])]

\* the two loops that fill norm_descriptor: desc_idx 0..15 walks C3 from its
\* freshest index, desc_idx 16..35 walks C4 from its freshest index
compute_descriptor(c3_vals, freshest_c3, c4_vals, freshest_c4) ==
    LET freshest_seg_val == IF freshest_c3.val >= freshest_c4.val
                            THEN freshest_c3.val ELSE freshest_c4.val
    IN [desc_idx \in 0..(NORM_DESCRIPTOR_LEN - 1) |->
          IF desc_idx < CIRCLE3_DIM
          THEN descriptor_norm(freshest_seg_val,
                               c3_vals[(desc_idx + freshest_c3.idx) % CIRCLE3_DIM])
          ELSE descriptor_norm(freshest_seg_val,
                               c4_vals[((desc_idx - CIRCLE3_DIM) + freshest_c4.idx) % CIRCLE4_DIM])]

\* [panic, corner, evt]: whether the call panicked, the bool it returned, and
\* the event behind the &mut reference after the call
arcstar_check_for_point(sae_pol, e) ==
    LET c3 == c3_vals_for_point(sae_pol, e.row, e.col)
    IN IF c3.panic THEN [panic |-> TRUE, corner |-> FALSE, evt |-> e]
       ELSE
       LET freshest_c3 == find_freshest_in_circle(c3.vals, CIRCLE3_DIM)
           freshest_c3_segment_size ==
               arcstar_expand(c3.vals, CIRCLE3_DIM, CIRCLE3_MIN_ARC_LEN, freshest_c3.idx)
       IN IF ~c3_arc_valid(freshest_c3_segment_size)
          THEN [panic |-> FALSE, corner |-> FALSE, evt |-> e]
          ELSE
          LET c4 == c4_vals_for_point(sae_pol, e.row, e.col)
          IN IF c4.panic THEN [panic |-> TRUE, corner |-> FALSE, evt |-> e]
             ELSE
             LET freshest_c4 == find_freshest_in_circle(c4.vals, CIRCLE4_DIM)
                 freshest_c4_segment_size ==
                     arcstar_expand(c4.vals, CIRCLE4_DIM, CIRCLE4_MIN_ARC_LEN, freshest_c4.idx)
             IN IF ~c4_arc_valid(freshest_c4_segment_size)
                THEN [panic |-> FALSE, corner |-> FALSE, evt |-> e]
                ELSE [panic |-> FALSE, corner |-> TRUE,
                      evt |-> [e EXCEPT !.norm_descriptor =
                                  Some(compute_descriptor(c3.vals, freshest_c3,
                                                          c4.vals, freshest_c4))]]

(***************************************************************************)
(* arcstar_is_event_corner: the border filter, evaluated left to right     *)
(* with short-circuit, then arcstar_check_for_point.                       *)
(***************************************************************************)
\* arcstar_is_event_corner with the upper tests off by one: > for >=
arcstar_is_event_corner_off_by_one(overflow_checks, sae_pol, e) ==
    LET row == e.row
        col == e.col
        nrows == sae_pol.nrows
        ncols == sae_pol.ncols
        rejected == [panic |-> FALSE, corner |-> FALSE, evt |-> e]
        panicked == [panic |-> TRUE, corner |-> FALSE, evt |-> e]
        col_limit == usize_sub(overflow_checks, ncols, BORDER_INSET)
        row_limit == usize_sub(overflow_checks, nrows, BORDER_INSET)
    IN IF col < BORDER_INSET THEN rejected
       ELSE IF col_limit.panic THEN panicked
       ELSE IF col > col_limit.val THEN rejected
       ELSE IF row < BORDER_INSET THEN rejected
       ELSE IF row_limit.panic THEN panicked
       ELSE IF row > row_limit.val THEN rejected
       ELSE arcstar_check_for_point(sae_pol, e)

arcstar_is_event_corner(overflow_checks, sae_pol, e) ==
    LET row == e.row
        col == e.col
        nrows == sae_pol.nrows
        ncols == sae_pol.ncols
        rejected == [panic |-> FALSE, corner |-> FALSE, evt |-> e]
        panicked == [panic |-> TRUE, corner |-> FALSE, evt |-> e]
        col_limit == usize_sub(overflow_checks, ncols, BORDER_INSET)
        row_limit == usize_sub(overflow_checks, nrows, BORDER_INSET)
    IN IF col < BORDER_INSET THEN rejected
       ELSE IF col_limit.panic THEN panicked
       ELSE IF col >= col_limit.val THEN rejected
       ELSE IF row < BORDER_INSET THEN rejected
       ELSE IF row_limit.panic THEN panicked
       ELSE IF row >= row_limit.val THEN rejected
       ELSE arcstar_check_for_point(sae_pol, e)

(***************************************************************************)
(* detect_and_compute_one(sae_pol: &SaeMatrix, evt: &SaeEvent): what it    *)
(* returns, and the surface and the caller's event after the call.         *)
(***************************************************************************)
\* detect_and_compute_one returning the clone as it was made
detect_and_compute_one_stale(overflow_checks, sae_pol, e) ==
    LET out_evt == Clone(e)
        r == arcstar_is_event_corner(overflow_checks, sae_pol, out_evt)
    IN [ret |-> IF r.panic THEN [op |-> "detect", status |-> "panicked", value |-> None]
                ELSE IF r.corner
                     THEN [op |-> "detect", status |-> "returned", value |-> Some(out_evt)]
                     ELSE [op |-> "detect", status |-> "returned", value |-> None],
        sae_pol |-> sae_pol,
        evt |-> e]

\* detect_and_compute_one working on the caller's event instead of a clone
detect_and_compute_one_in_place(overflow_checks, sae_pol, e) ==
    LET r == arcstar_is_event_corner(overflow_checks, sae_pol, e)
    IN [ret |-> IF r.panic THEN [op |-> "detect", status |-> "panicked", value |-> None]
                ELSE IF r.corner
                     THEN [op |-> "detect", status |-> "returned", value |-> Some(r.evt)]
                     ELSE [op |-> "detect", status |-> "returned", value |-> None],
        sae_pol |-> sae_pol,
        evt |-> r.evt]

detect_and_compute_one(overflow_checks, sae_pol, e) ==
    LET out_evt == Clone(e)
        r == arcstar_is_event_corner(overflow_checks, sae_pol, out_evt)
    IN [ret |-> IF r.panic THEN [op |-> "detect", status |-> "panicked", value |-> None]
                ELSE IF r.corner
                     THEN [op |-> "detect", status |-> "returned", value |-> Some(r.evt)]
                     ELSE [op |-> "detect", status |-> "returned", value |-> None],
        sae_pol |-> sae_pol,
        evt |-> e]

SAE_ALL_RAYS ==
    <<
       <<0, 0, 0, 0, 7, 0, 0, 0, 0>>,
       <<0, 7, 0, 0, 7, 0, 0, 7, 0>>,
       <<0, 0, 7, 0, 0, 0, 7, 0, 0>>,
       <<0, 0, 0, 0, 0, 0, 0, 0, 0>>,
       <<7, 7, 0, 0, 9, 0, 0, 7, 7>>,
       <<0, 0, 0, 0, 0, 0, 0, 0, 0>>,
       <<0, 0, 7, 0, 0, 0, 7, 0, 0>>,
       <<0, 7, 0, 0, 7, 0, 0, 7, 0>>,
       <<0, 0, 0, 0, 7, 0, 0, 0, 0>>
    >>

SAE_BLANK ==
    <<
       <<0, 0, 0, 0, 0, 0, 0, 0, 0>>,
       <<0, 0, 0, 0, 0, 0, 0, 0, 0>>,
       <<0, 0, 0, 0, 0, 0, 0, 0, 0>>,
       <<0, 0, 0, 0, 0, 0, 0, 0, 0>>,
       <<0, 0, 0, 0, 9, 0, 0, 0, 0>>,
       <<0, 0, 0, 0, 0, 0, 0, 0, 0>>,
       <<0, 0, 0, 0, 0, 0, 0, 0, 0>>,
       <<0, 0, 0, 0, 0, 0, 0, 0, 0>>,
       <<0, 0, 0, 0, 0, 0, 0, 0, 0>>
    >>

SAE_OUTSIDE_CORNER_NE ==
    <<
       <<0, 0, 0, 0, 80, 79, 78, 77, 76>>,
       <<0, 0, 0, 0, 85, 84, 83, 82, 81>>,
       <<0, 0, 0, 0, 90, 89, 88, 87, 86>>,
       <<0, 0, 0, 0, 95, 94, 93, 92, 91>>,
       <<0, 0, 0, 0, 100, 99, 98, 97, 96>>,
       <<0, 0, 0, 0, 0, 0, 0, 0, 0>>,
       <<0, 0, 0, 0, 0, 0, 0, 0, 0>>,
       <<0, 0, 0, 0, 0, 0, 0, 0, 0>>,
       <<0, 0, 0, 0, 0, 0, 0, 0, 0>>
    >>

SAE_OUTSIDE_CORNER_SE ==
    <<
       <<0, 0, 0, 0, 0, 0, 0, 0, 0>>,
       <<0, 0, 0, 0, 0, 0, 0, 0, 0>>,
       <<0, 0, 0, 0, 0, 0, 0, 0, 0>>,
       <<0, 0, 0, 0, 0, 0, 0, 0, 0>>,
       <<0, 0, 0, 0, 9, 7, 7, 7, 7>>,
       <<0, 0, 0, 0, 7, 7, 7, 7, 7>>,
       <<0, 0, 0, 0, 7, 7, 7, 7, 7>>,
       <<0, 0, 0, 0, 7, 7, 7, 7, 7>>,
       <<0, 0, 0, 0, 7, 7, 7, 7, 7>>
    >>

SAE_OUTSIDE_CORNER_SW ==
    <<
       <<0, 0, 0, 0, 0, 0, 0, 0, 0>>,
       <<0, 0, 0, 0, 0, 0, 0, 0, 0>>,
       <<0, 0, 0, 0, 0, 0, 0, 0, 0>>,
       <<0, 0, 0, 0, 0, 0, 0, 0, 0>>,
       <<7, 7, 7, 7, 9, 0, 0, 0, 0>>,
       <<7, 7, 7, 7, 7, 0, 0, 0, 0>>,
       <<7, 7, 7, 7, 7, 0, 0, 0, 0>>,
       <<7, 7, 7, 7, 7, 0, 0, 0, 0>>,
       <<7, 7, 7, 7, 7, 0, 0, 0, 0>>
    >>

SAE_OUTSIDE_CORNER_NW ==
    <<
       <<7, 7, 7, 7, 7, 0, 0, 0, 0>>,
       <<7, 7, 7, 7, 7, 0, 0, 0, 0>>,
       <<7, 7, 7, 7, 7, 0, 0, 0, 0>>,
       <<7, 7, 7, 7, 7, 0, 0, 0, 0>>,
       <<7, 7, 7, 7, 9, 0, 0, 0, 0>>,
       <<0, 0, 0, 0, 0, 0, 0, 0, 0>>,
       <<0, 0, 0, 0, 0, 0, 0, 0, 0>>,
       <<0, 0, 0, 0, 0, 0, 0, 0, 0>>,
       <<0, 0, 0, 0, 0, 0, 0, 0, 0>>
    >>

SAE_OUTSIDE_CORNER_SSE ==
    <<
       <<0, 0, 0, 0, 0, 0, 0, 0, 0>>,
       <<0, 0, 0, 0, 0, 0, 0, 0, 0>>,
       <<0, 0, 0, 0, 0, 0, 0, 0, 0>>,
       <<0, 0, 0, 0, 0, 0, 0, 0, 0>>,
       <<0, 0, 0, 0, 9, 0, 0, 0, 0>>,
       <<0, 0, 0, 7, 7, 7, 0, 0, 0>>,
       <<0, 0, 7, 7, 7, 7, 7, 7, 0>>,
       <<0, 7, 7, 7, 7, 7, 7, 7, 7>>,
       <<0, 0, 7, 7, 7, 7, 7, 7, 7>>
    >>

SAE_INSIDE_CORNER_NE ==
    <<
       <<7, 7, 7, 7, 0, 0, 0, 0, 0>>,
       <<7, 7, 7, 7, 0, 0, 0, 0, 0>>,
       <<7, 7, 7, 7, 0, 0, 0, 0, 0>>,
       <<7, 7, 7, 7, 0, 0, 0, 0, 0>>,
       <<7, 7, 7, 7, 9, 0, 0, 0, 0>>,
       <<7, 7, 7, 7, 7, 7, 7, 7, 7>>,
       <<7, 7, 7, 7, 7, 7, 7, 7, 7>>,
       <<7, 7, 7, 7, 7, 7, 7, 7, 7>>,
       <<7, 7, 7, 7, 7, 7, 7, 7, 7>>
    >>

SAE_INSIDE_CORNER_NW ==
    <<
       <<0, 0, 0, 0, 0, 7, 7, 7, 7>>,
       <<0, 0, 0, 0, 0, 7, 7, 7, 7>>,
       <<0, 0, 0, 0, 0, 7, 7, 7, 7>>,
       <<0, 0, 0, 0, 0, 7, 7, 7, 7>>,
       <<0, 0, 0, 0, 9, 7, 7, 7, 7>>,
       <<7, 7, 7, 7, 7, 7, 7, 7, 7>>,
       <<7, 7, 7, 7, 7, 7, 7, 7, 7>>,
       <<7, 7, 7, 7, 7, 7, 7, 7, 7>>,
       <<7, 7, 7, 7, 7, 7, 7, 7, 7>>
    >>

SAE_INSIDE_CORNER_SE ==
    <<
       <<7, 7, 7, 7, 7, 7, 7, 7, 7>>,
       <<7, 7, 7, 7, 7, 7, 7, 7, 7>>,
       <<7, 7, 7, 7, 7, 7, 7, 7, 7>>,
       <<7, 7, 7, 7, 7, 7, 7, 7, 7>>,
       <<7, 7, 7, 7, 9, 0, 0, 0, 0>>,
       <<7, 7, 7, 7, 0, 0, 0, 0, 0>>,
       <<7, 7, 7, 7, 0, 0, 0, 0, 0>>,
       <<7, 7, 7, 7, 0, 0, 0, 0, 0>>,
       <<7, 7, 7, 7, 0, 0, 0, 0, 0>>
    >>

SAE_INSIDE_CORNER_SW ==
    <<
       <<7, 7, 7, 7, 7, 7, 7, 7, 7>>,
       <<7, 7, 7, 7, 7, 7, 7, 7, 7>>,
       <<7, 7, 7, 7, 7, 7, 7, 7, 7>>,
       <<7, 7, 7, 7, 7, 7, 7, 7, 7>>,
       <<0, 0, 0, 0, 9, 7, 7, 7, 7>>,
       <<0, 0, 0, 0, 0, 7, 7, 7, 7>>,
       <<0, 0, 0, 0, 0, 7, 7, 7, 7>>,
       <<0, 0, 0, 0, 0, 7, 7, 7, 7>>,
       <<0, 0, 0, 0, 0, 7, 7, 7, 7>>
    >>

SAE_INSIDE_CORNER_N ==
    <<
       <<0, 0, 0, 0, 0, 0, 0, 0, 0>>,
       <<7, 0, 0, 0, 0, 0, 0, 0, 7>>,
       <<7, 7, 0, 0, 0, 0, 0, 7, 7>>,
       <<7, 7, 7, 0, 0, 0, 7, 7, 7>>,
       <<7, 7, 7, 7, 9, 7, 7, 7, 7>>,
       <<7, 7, 7, 7, 7, 7, 7, 7, 7>>,
       <<7, 7, 7, 7, 7, 7, 7, 7, 7>>,
       <<7, 7, 7, 7, 7, 7, 7, 7, 7>>,
       <<7, 7, 7, 7, 7, 7, 7, 7, 7>>
    >>

SAE_INSIDE_CORNER_S ==
    <<
       <<7, 7, 7, 7, 7, 7, 7, 7, 7>>,
       <<7, 7, 7, 7, 7, 7, 7, 7, 7>>,
       <<7, 7, 7, 7, 7, 7, 7, 7, 7>>,
       <<7, 7, 7, 7, 7, 7, 7, 7, 7>>,
       <<7, 7, 7, 7, 9, 7, 7, 7, 7>>,
       <<7, 7, 7, 0, 0, 0, 7, 7, 7>>,
       <<7, 7, 0, 0, 0, 0, 0, 7, 7>>,
       <<7, 0, 0, 0, 0, 0, 0, 0, 7>>,
       <<0, 0, 0, 0, 0, 0, 0, 0, 0>>
    >>

SAE_INSIDE_CORNER_E ==
    <<
       <<7, 7, 7, 7, 7, 7, 7, 7, 0>>,
       <<7, 7, 7, 7, 7, 7, 7, 0, 0>>,
       <<7, 7, 7, 7, 7, 7, 0, 0, 0>>,
       <<7, 7, 7, 7, 7, 0, 0, 0, 0>>,
       <<7, 7, 7, 7, 9, 0, 0, 0, 0>>,
       <<7, 7, 7, 7, 7, 0, 0, 0, 0>>,
       <<7, 7, 7, 7, 7, 7, 0, 0, 0>>,
       <<7, 7, 7, 7, 7, 7, 7, 0, 0>>,
       <<7, 7, 7, 7, 7, 7, 7, 7, 0>>
    >>

SAE_INSIDE_CORNER_W ==
    <<
       <<0, 7, 7, 7, 7, 7, 7, 7, 7>>,
       <<0, 0, 7, 7, 7, 7, 7, 7, 7>>,
       <<0, 0, 0, 7, 7, 7, 7, 7, 7>>,
       <<0, 0, 0, 0, 7, 7, 7, 7, 7>>,
       <<0, 0, 0, 0, 9, 7, 7, 7, 7>>,
       <<0, 0, 0, 0, 7, 7, 7, 7, 7>>,
       <<0, 0, 0, 7, 7, 7, 7, 7, 7>>,
       <<0, 0, 7, 7, 7, 7, 7, 7, 7>>,
       <<0, 7, 7, 7, 7, 7, 7, 7, 7>>
    >>

SAE_OUTSIDE_CORNER_N ==
    <<
       <<7, 7, 7, 7, 7, 7, 7, 7, 7>>,
       <<0, 7, 7, 7, 7, 7, 7, 7, 0>>,
       <<0, 0, 7, 7, 7, 7, 7, 0, 0>>,
       <<0, 0, 0, 7, 7, 7, 0, 0, 0>>,
       <<0, 0, 0, 0, 9, 0, 0, 0, 0>>,
       <<0, 0, 0, 0, 0, 0, 0, 0, 0>>,
       <<0, 0, 0, 0, 0, 0, 0, 0, 0>>,
       <<0, 0, 0, 0, 0, 0, 0, 0, 0>>,
       <<0, 0, 0, 0, 0, 0, 0, 0, 0>>
    >>

SAE_OUTSIDE_CORNER_S ==
    <<
       <<0, 0, 0, 0, 0, 0, 0, 0, 0>>,
       <<0, 0, 0, 0, 0, 0, 0, 0, 0>>,
       <<0, 0, 0, 0, 0, 0, 0, 0, 0>>,
       <<0, 0, 0, 0, 0, 0, 0, 0, 0>>,
       <<0, 0, 0, 0, 9, 0, 0, 0, 0>>,
       <<0, 0, 0, 7, 7, 7, 0, 0, 0>>,
       <<0, 0, 7, 7, 7, 7, 7, 0, 0>>,
       <<0, 7, 7, 7, 7, 7, 7, 7, 0>>,
       <<7, 7, 7, 7, 7, 7, 7, 7, 7>>
    >>

SAE_OUTSIDE_CORNER_E ==
    <<
       <<0, 0, 0, 0, 0, 0, 0, 0, 7>>,
       <<0, 0, 0, 0, 0, 0, 0, 7, 7>>,
       <<0, 0, 0, 0, 0, 0, 7, 7, 7>>,
       <<0, 0, 0, 0, 0, 7, 7, 7, 7>>,
       <<0, 0, 0, 0, 9, 7, 7, 7, 7>>,
       <<0, 0, 0, 0, 0, 7, 7, 7, 7>>,
       <<0, 0, 0, 0, 0, 0, 7, 7, 7>>,
       <<0, 0, 0, 0, 0, 0, 0, 7, 7>>,
       <<0, 0, 0, 0, 0, 0, 0, 0, 7>>
    >>

SAE_OUTSIDE_CORNER_W ==
    <<
       <<7, 0, 0, 0, 0, 0, 0, 0, 0>>,
       <<7, 7, 0, 0, 0, 0, 0, 0, 0>>,
       <<7, 7, 7, 0, 0, 0, 0, 0, 0>>,
       <<7, 7, 7, 7, 0, 0, 0, 0, 0>>,
       <<7, 7, 7, 7, 9, 0, 0, 0, 0>>,
       <<7, 7, 7, 7, 0, 0, 0, 0, 0>>,
       <<7, 7, 7, 0, 0, 0, 0, 0, 0>>,
       <<7, 7, 0, 0, 0, 0, 0, 0, 0>>,
       <<7, 0, 0, 0, 0, 0, 0, 0, 0>>
    >>

SAE_BAR_VERT_THICK ==
    <<
       <<7, 7, 7, 7, 7, 0, 0, 0, 0>>,
       <<7, 7, 7, 7, 7, 0, 0, 0, 0>>,
       <<7, 7, 7, 7, 7, 0, 0, 0, 0>>,
       <<7, 7, 7, 7, 7, 0, 0, 0, 0>>,
       <<7, 7, 7, 7, 9, 0, 0, 0, 0>>,
       <<7, 7, 7, 7, 7, 0, 0, 0, 0>>,
       <<7, 7, 7, 7, 7, 0, 0, 0, 0>>,
       <<7, 7, 7, 7, 7, 0, 0, 0, 0>>,
       <<7, 7, 7, 7, 7, 0, 0, 0, 0>>
    >>

SAE_BAR_VERT_THIN ==
    <<
       <<7, 7, 7, 7, 0, 0, 0, 0, 0>>,
       <<7, 7, 7, 7, 0, 0, 0, 0, 0>>,
       <<7, 7, 7, 7, 0, 0, 0, 0, 0>>,
       <<7, 7, 7, 7, 0, 0, 0, 0, 0>>,
       <<7, 7, 7, 7, 9, 0, 0, 0, 0>>,
       <<7, 7, 7, 7, 0, 0, 0, 0, 0>>,
       <<7, 7, 7, 7, 0, 0, 0, 0, 0>>,
       <<7, 7, 7, 7, 0, 0, 0, 0, 0>>,
       <<7, 7, 7, 7, 0, 0, 0, 0, 0>>
    >>

SAE_CENTER_BAR_VERT_THICK ==
    <<
       <<0, 0, 7, 7, 7, 7, 7, 0, 0>>,
       <<0, 0, 7, 7, 7, 7, 7, 0, 0>>,
       <<0, 0, 7, 7, 7, 7, 7, 0, 0>>,
       <<0, 0, 7, 7, 7, 7, 7, 0, 0>>,
       <<0, 0, 7, 7, 9, 7, 7, 0, 0>>,
       <<0, 0, 7, 7, 7, 7, 7, 0, 0>>,
       <<0, 0, 7, 7, 7, 7, 7, 0, 0>>,
       <<0, 0, 7, 7, 7, 7, 7, 0, 0>>,
       <<0, 0, 7, 7, 7, 7, 7, 0, 0>>
    >>

SAE_CENTER_BAR_VERT_THIN ==
    <<
       <<0, 0, 0, 7, 7, 7, 0, 0, 0>>,
       <<0, 0, 0, 7, 7, 7, 0, 0, 0>>,
       <<0, 0, 0, 7, 7, 7, 0, 0, 0>>,
       <<0, 0, 0, 7, 7, 7, 0, 0, 0>>,
       <<0, 0, 0, 7, 9, 7, 0, 0, 0>>,
       <<0, 0, 0, 7, 7, 7, 0, 0, 0>>,
       <<0, 0, 0, 7, 7, 7, 0, 0, 0>>,
       <<0, 0, 0, 7, 7, 7, 0, 0, 0>>,
       <<0, 0, 0, 7, 7, 7, 0, 0, 0>>
    >>

SAE_DIAG_BAR_VERT_THIN ==
    <<
       <<0, 0, 0, 0, 0, 7, 7, 7, 0>>,
       <<0, 0, 0, 0, 0, 7, 7, 7, 0>>,
       <<0, 0, 0, 0, 7, 7, 7, 0, 0>>,
       <<0, 0, 0, 0, 7, 7, 7, 0, 0>>,
       <<0, 0, 0, 7, 9, 7, 0, 0, 0>>,
       <<0, 0, 7, 7, 7, 0, 0, 0, 0>>,
       <<0, 0, 7, 7, 7, 0, 0, 0, 0>>,
       <<0, 7, 7, 7, 0, 0, 0, 0, 0>>,
       <<0, 7, 7, 7, 0, 0, 0, 0, 0>>
    >>

SAE_DIAG_BAR_NE_THIN ==
    <<
       <<0, 0, 0, 0, 0, 0, 0, 0, 1>>,
       <<0, 0, 0, 0, 0, 0, 0, 3, 0>>,
       <<0, 0, 0, 0, 0, 0, 5, 0, 0>>,
       <<0, 0, 0, 0, 0, 7, 0, 0, 0>>,
       <<0, 0, 0, 0, 9, 0, 0, 0, 0>>,
       <<0, 0, 0, 8, 0, 0, 0, 0, 0>>,
       <<0, 0, 6, 0, 0, 0, 0, 0, 0>>,
       <<0, 4, 0, 0, 0, 0, 0, 0, 0>>,
       <<2, 0, 0, 0, 0, 0, 0, 0, 0>>
    >>

SAE_BAR_HORIZ_THIN ==
    <<
       <<7, 7, 7, 7, 7, 7, 7, 7, 7>>,
       <<7, 7, 7, 7, 7, 7, 7, 7, 7>>,
       <<7, 7, 7, 7, 7, 7, 7, 7, 7>>,
       <<7, 7, 7, 7, 7, 7, 7, 7, 7>>,
       <<0, 0, 0, 0, 9, 0, 0, 0, 0>>,
       <<0, 0, 0, 0, 0, 0, 0, 0, 0>>,
       <<0, 0, 0, 0, 0, 0, 0, 0, 0>>,
       <<0, 0, 0, 0, 0, 0, 0, 0, 0>>,
       <<0, 0, 0, 0, 0, 0, 0, 0, 0>>
    >>

SAE_BAR_HORIZ_THICK ==
    <<
       <<7, 7, 7, 7, 7, 7, 7, 7, 7>>,
       <<7, 7, 7, 7, 7, 7, 7, 7, 7>>,
       <<7, 7, 7, 7, 7, 7, 7, 7, 7>>,
       <<7, 7, 7, 7, 7, 7, 7, 7, 7>>,
       <<7, 7, 7, 7, 9, 7, 7, 7, 7>>,
       <<0, 0, 0, 0, 0, 0, 0, 0, 0>>,
       <<0, 0, 0, 0, 0, 0, 0, 0, 0>>,
       <<0, 0, 0, 0, 0, 0, 0, 0, 0>>,
       <<0, 0, 0, 0, 0, 0, 0, 0, 0>>
    >>

SAE_CENTER_BAR_HORIZ_THIN ==
    <<
       <<0, 0, 0, 0, 0, 0, 0, 0, 0>>,
       <<0, 0, 0, 0, 0, 0, 0, 0, 0>>,
       <<0, 0, 0, 0, 0, 0, 0, 0, 0>>,
       <<7, 7, 7, 7, 7, 7, 7, 7, 7>>,
       <<7, 7, 7, 7, 9, 7, 7, 7, 7>>,
       <<7, 7, 7, 7, 7, 7, 7, 7, 7>>,
       <<0, 0, 0, 0, 0, 0, 0, 0, 0>>,
       <<0, 0, 0, 0, 0, 0, 0, 0, 0>>,
       <<0, 0, 0, 0, 0, 0, 0, 0, 0>>
    >>

SAE_CENTER_BAR_HORIZ_THICK ==
    <<
       <<0, 0, 0, 0, 0, 0, 0, 0, 0>>,
       <<0, 0, 0, 0, 0, 0, 0, 0, 0>>,
       <<7, 7, 7, 7, 7, 7, 7, 7, 7>>,
       <<7, 7, 7, 7, 7, 7, 7, 7, 7>>,
       <<7, 7, 7, 7, 9, 7, 7, 7, 7>>,
       <<7, 7, 7, 7, 7, 7, 7, 7, 7>>,
       <<7, 7, 7, 7, 7, 7, 7, 7, 7>>,
       <<0, 0, 0, 0, 0, 0, 0, 0, 0>>,
       <<0, 0, 0, 0, 0, 0, 0, 0, 0>>
    >>
(***************************************************************************)
(* sae_types.rs: the distance and likeness utilities of SaeEvent.          *)
(*                                                                         *)
(* A u32 is the pair [hi, lo] of its 16-bit halves, hi * 65536 + lo, since *)
(* TLC's integers end at 2^31 - 1.                                         *)
(***************************************************************************)
U32(n) == [hi |-> n \div 65536, lo |-> n % 65536]

\* a * b on u32 for a, b below 2^16 (a difference of two u16), by the halves
\* of a and b: the product is below 2^32 and cannot overflow
u32_mul_u16(a, b) ==
    LET ah == a \div 256
        al == a % 256
        bh == b \div 256
        bl == b % 256
        t == (ah * bl + al * bh) * 256 + al * bl
    IN [hi |-> ah * bh + t \div 65536, lo |-> t % 65536]

\* x + y on u32: with overflow checks a sum of 2^32 or more panics, without
\* them it wraps
u32_add(overflow_checks, x, y) ==
    LET lo == x.lo + y.lo
        hi == x.hi + y.hi + lo \div 65536
    IN IF hi < 65536 THEN [panic |-> FALSE, val |-> [hi |-> hi, lo |-> lo % 65536]]
       ELSE IF overflow_checks THEN [panic |-> TRUE, val |-> U32(0)]
       ELSE [panic |-> FALSE, val |-> [hi |-> hi % 65536, lo |-> lo % 65536]]

\* self.x.max(other.x) - self.x.min(other.x) on u16
u16_abs_diff(a, b) == (IF a >= b THEN a ELSE b) - (IF a <= b THEN a ELSE b)

\* [panic, val]
spatial_dist_2(overflow_checks, self, b) ==
    LET drow == u16_abs_diff(self.row, b.row)
        dcol == u16_abs_diff(self.col, b.col)
    IN u32_add(overflow_checks, u32_mul_u16(drow, drow), u32_mul_u16(dcol, dcol))

\* [panic, val]
spatial_rl_dist(overflow_checks, self, b) ==
    LET drow == u16_abs_diff(self.row, b.row)
        dcol == u16_abs_diff(self.col, b.col)
    IN u32_add(overflow_checks, U32(drow), U32(dcol))

\* f32 arithmetic of likeness, on non-negative rationals in lowest terms
RECURSIVE GCD(_, _)
GCD(a, b) == IF b = 0 THEN a ELSE GCD(b, a % b)
Reduce(x) ==
    IF x.den = 0 THEN NaN
    ELSE LET g == GCD(x.num, x.den) IN [num |-> x.num \div g, den |-> x.den \div g]
F32Add(x, y) ==
    IF x = NaN \/ y = NaN THEN NaN
    ELSE Reduce([num |-> x.num * y.den + y.num * x.den, den |-> x.den * y.den])
\* f32::min and f32::max give the other operand when one is NaN
F32Min(x, y) ==
    IF x = NaN THEN y ELSE IF y = NaN THEN x
    ELSE IF x.num * y.den <= y.num * x.den THEN x ELSE y
F32Max(x, y) ==
    IF x = NaN THEN y ELSE IF y = NaN THEN x
    ELSE IF x.num * y.den >= y.num * x.den THEN x ELSE y
\* x / y for x, y >= 0 with x <= y, as likeness divides: 0 / 0 is NaN
F32Quot(x, y) ==
    IF x = NaN \/ y = NaN THEN NaN
    ELSE IF y.num = 0 THEN NaN
    ELSE Reduce([num |-> x.num * y.den, den |-> x.den * y.num])

\* the loop of likeness: acc holds the loop index i and the three totals; each
\* iteration reads a_desc[i] and b_desc[i]
RECURSIVE likeness_loop(_, _, _)
likeness_loop(a_desc, b_desc, acc) ==
    IF acc.i >= NORM_DESCRIPTOR_LEN THEN acc
    ELSE LET da == a_desc[acc.i]
             db == b_desc[acc.i]
         IN likeness_loop(a_desc, b_desc,
                [i |-> acc.i + 1,
                 da_total |-> F32Add(acc.da_total, da),
                 db_total |-> F32Add(acc.db_total, db),
                 min_total |-> F32Add(acc.min_total, F32Min(da, db))])

likeness_totals(a_desc, b_desc) ==
    likeness_loop(a_desc, b_desc,
                  [i |-> 0, da_total |-> F32(0), db_total |-> F32(0), min_total |-> F32(0)])

\* likeness with && for || in the guard
likeness_guard_and(self, b) ==
    IF is_none(self.norm_descriptor) /\ is_none(b.norm_descriptor)
    THEN [panic |-> FALSE, val |-> F32(0), reads |-> 0]
    ELSE IF is_none(b.norm_descriptor) \/ is_none(self.norm_descriptor)
    THEN [panic |-> TRUE, val |-> NaN, reads |-> 0]
    ELSE LET acc == likeness_totals(unwrap(self.norm_descriptor), unwrap(b.norm_descriptor))
         IN [panic |-> FALSE,
             val |-> F32Quot(acc.min_total, F32Max(acc.da_total, acc.db_total)),
             reads |-> 2 * acc.i]

\* [panic, val, reads]: the two matches end in unreachable!() on None
likeness(self, b) ==
    IF is_none(self.norm_descriptor) \/ is_none(b.norm_descriptor)
    THEN [panic |-> FALSE, val |-> F32(0), reads |-> 0]
    ELSE IF is_none(b.norm_descriptor) \/ is_none(self.norm_descriptor)
    THEN [panic |-> TRUE, val |-> NaN, reads |-> 0]
    ELSE LET acc == likeness_totals(unwrap(self.norm_descriptor), unwrap(b.norm_descriptor))
         IN [panic |-> FALSE,
             val |-> F32Quot(acc.min_total, F32Max(acc.da_total, acc.db_total)),
             reads |-> 2 * acc.i]

(***************************************************************************)
(* The surfaces the caller may own.                                        *)
(***************************************************************************)
\* init_matrix_from_static_sae_array: a 9 x 9 matrix from a literal
init_matrix_from_static_sae_array(input) ==
    SaeMatrix(9, 9, [p \in Cells(9, 9) |-> input[p[1] + 1][p[2] + 1]])

StaticSaeArrays ==
    { SAE_ALL_RAYS, SAE_BLANK,
      SAE_OUTSIDE_CORNER_NE, SAE_OUTSIDE_CORNER_SE, SAE_OUTSIDE_CORNER_SW,
      SAE_OUTSIDE_CORNER_NW, SAE_OUTSIDE_CORNER_SSE,
      SAE_INSIDE_CORNER_NE, SAE_INSIDE_CORNER_NW, SAE_INSIDE_CORNER_SE,
      SAE_INSIDE_CORNER_SW, SAE_INSIDE_CORNER_N, SAE_INSIDE_CORNER_S,
      SAE_INSIDE_CORNER_E, SAE_INSIDE_CORNER_W,
      SAE_OUTSIDE_CORNER_N, SAE_OUTSIDE_CORNER_S, SAE_OUTSIDE_CORNER_E,
      SAE_OUTSIDE_CORNER_W,
      SAE_BAR_VERT_THICK, SAE_BAR_VERT_THIN, SAE_CENTER_BAR_VERT_THICK,
      SAE_CENTER_BAR_VERT_THIN, SAE_DIAG_BAR_VERT_THIN, SAE_DIAG_BAR_NE_THIN,
      SAE_BAR_HORIZ_THIN, SAE_BAR_HORIZ_THICK, SAE_CENTER_BAR_HORIZ_THIN,
      SAE_CENTER_BAR_HORIZ_THICK }

FixtureSurfaces == { init_matrix_from_static_sae_array(a) : a \in StaticSaeArrays }

\* A generated content: the pixels on the (sr, sc) side of the anchor
\* (BORDER_INSET, BORDER_INSET) hold vnear up to the radius-3 ring around the
\* anchor and vfar beyond it; every other pixel holds vout. A sign of 0 drops
\* that axis' condition: half planes and, with both signs 0, discs.
WedgeCell(sr, sc, vnear, vfar, vout, row, col) ==
    LET dr == row - BORDER_INSET
        dc == col - BORDER_INSET
    IN IF sr * dr >= 0 /\ sc * dc >= 0
       THEN (IF dr * dr + dc * dc > 10 THEN vfar ELSE vnear)
       ELSE vout

\* A generated content for any size: diagonal stripes of 0..MaxTime
StripeCell(shift, row, col) == (row + col + shift) % (MaxTime + 1)

Signs == {-1, 0, 1}

WedgeSurfaces(nrows, ncols) ==
    { SaeMatrix(nrows, ncols,
                [p \in Cells(nrows, ncols) |->
                    WedgeCell(q[1], q[2], q[3], q[4], q[5], p[1], p[2])]) :
        q \in Signs \X Signs \X (0..MaxTime) \X (0..MaxTime) \X (0..MaxTime) }

StripeSurfaces(nrows, ncols) ==
    { SaeMatrix(nrows, ncols,
                [p \in Cells(nrows, ncols) |-> StripeCell(shift, p[1], p[2])]) :
        shift \in 0..MaxTime }

\* the sizes that leave at least one pixel inside the border
InteriorDims == (2 * BORDER_INSET + 1)..MaxDim

\* stripes in every size 0..MaxDim x 0..MaxDim; wedges where a pixel can pass
\* the border filter
GeneratedSurfaces ==
    UNION { StripeSurfaces(nrows, ncols) :
              <<nrows, ncols>> \in (0..MaxDim) \X (0..MaxDim) }
    \cup
    UNION { WedgeSurfaces(nrows, ncols) :
              <<nrows, ncols>> \in InteriorDims \X InteriorDims }

Surfaces == FixtureSurfaces \cup GeneratedSurfaces

(***************************************************************************)
(* The events the caller may hand in.                                      *)
(***************************************************************************)
\* generate_test_event's descriptor: 36 times 666.0
StaleDescriptor == [i \in 0..(NORM_DESCRIPTOR_LEN - 1) |-> F32(666)]

\* generate_test_event, at any pixel
generate_test_event(row, col) == SaeEvent(row, col, 0, 0, Some(StaleDescriptor))

\* the coordinates tried on an axis of length dim: both sides of every
\* threshold of the border filter, the ends of the axis, and u16::MAX
Coords(dim) ==
    { x \in { 0, BORDER_INSET - 1, BORDER_INSET, BORDER_INSET + 1,
              dim - BORDER_INSET - 1, dim - BORDER_INSET, dim - 1, dim, U16_MAX } :
        x >= 0 }

Events(sae_pol) ==
    { generate_test_event(row, col) :
        <<row, col>> \in Coords(sae_pol.nrows) \X Coords(sae_pol.ncols) }
    \cup
    { SaeEvent(BORDER_INSET, BORDER_INSET, polarity, timestamp, d) :
        <<polarity, timestamp>> \in {0, 1} \X {0, MaxTime},
        d \in {None, Some(StaleDescriptor)} }

NoCall == [op |-> "none", status |-> "idle", value |-> None]

\* no slice in hand, no arcstar_expand and no arcstar_is_event_corner running
NoRing == [vals |-> NoVals, circle_dim |-> 0, min_arc_size |-> 0]
NotRunning == [pc |-> "idle"]

(***************************************************************************)
(* The state machine of the kernel and its caller.                         *)
(***************************************************************************)
Init ==
    /\ sae \in Surfaces
    /\ snapshot = sae
    /\ evt = SaeEvent_new
    /\ other = SaeEvent_new
    /\ ret = NoCall
    /\ ring = NoRing
    /\ eng = NotRunning
    /\ stage = NotRunning

\* the caller takes the next event of the stream
Receive(e) ==
    /\ ret = NoCall
    /\ evt = SaeEvent_new
    /\ evt' = e
    /\ UNCHANGED <<sae, other, ret, snapshot, ring, eng, stage>>

\* the caller runs the kernel on its event; the build either checks
\* arithmetic overflow or does not
Detect(overflow_checks) ==
    LET r == detect_and_compute_one(overflow_checks, sae, evt)
    IN /\ ret = NoCall
       /\ ret' = r.ret
       /\ sae' = r.sae_pol
       /\ evt' = r.evt
       /\ UNCHANGED <<other, snapshot, ring, eng, stage>>

\* the caller is done with the event and with what the call returned
Discard ==
    /\ ret.status = "returned"
    /\ evt' = SaeEvent_new
    /\ other' = SaeEvent_new
    /\ ret' = NoCall
    /\ UNCHANGED <<sae, snapshot, ring, eng, stage>>

Next ==
    \/ \E e \in Events(sae) : Receive(e)
    \/ \E overflow_checks \in BOOLEAN : Detect(overflow_checks)
    \/ Discard

Spec == Init /\ [][Next]_vars

(***************************************************************************)
(* The state machine of the utilities and their caller: two events, and    *)
(* one call on them at a time.                                             *)
(***************************************************************************)
\* coordinates 0..MaxCoord, the two around sqrt(2^31), and u16::MAX
UtilCoords == (0..MaxCoord) \cup {46340, 46341, U16_MAX}

\* the descriptors of test_event_likeness (all 1.0, all 0.0, all 0.5), the
\* one of generate_test_event, and two the kernel returns
ConstantDescriptor(x) == [i \in 0..(NORM_DESCRIPTOR_LEN - 1) |-> x]

KernelDescriptor(a) ==
    unwrap(unwrap(detect_and_compute_one(FALSE, init_matrix_from_static_sae_array(a),
                                         generate_test_event(4, 4)).ret.value).norm_descriptor)

UtilDescriptors ==
    { ConstantDescriptor(F32(1)), ConstantDescriptor(F32(0)),
      ConstantDescriptor([num |-> 1, den |-> 2]), StaleDescriptor,
      KernelDescriptor(SAE_OUTSIDE_CORNER_NE), KernelDescriptor(SAE_INSIDE_CORNER_W) }

UtilEvents ==
    { SaeEvent(row, col, 0, 0, None) : <<row, col>> \in UtilCoords \X UtilCoords }
    \cup
    { SaeEvent(row, 0, 1, MaxTime, Some(d)) : row \in 0..MaxCoord, d \in UtilDescriptors }

InitUtil ==
    /\ sae = init_matrix_from_static_sae_array(SAE_BLANK)
    /\ snapshot = sae
    /\ evt = SaeEvent_new
    /\ other = SaeEvent_new
    /\ ret = NoCall
    /\ ring = NoRing
    /\ eng = NotRunning
    /\ stage = NotRunning

\* the caller takes two events
Pick(a, b) ==
    /\ ret = NoCall
    /\ evt = SaeEvent_new /\ other = SaeEvent_new
    /\ evt' = a
    /\ other' = b
    /\ UNCHANGED <<sae, ret, snapshot, ring, eng, stage>>

UtilReturn(op, r, value) ==
    IF r.panic THEN [op |-> op, status |-> "panicked", value |-> None]
    ELSE [op |-> op, status |-> "returned", value |-> value]

SpatialDist2(overflow_checks) ==
    LET r == spatial_dist_2(overflow_checks, evt, other)
    IN /\ ret = NoCall
       /\ ret' = UtilReturn("spatial_dist_2", r, r.val)
       /\ UNCHANGED <<sae, evt, other, snapshot, ring, eng, stage>>

SpatialRlDist(overflow_checks) ==
    LET r == spatial_rl_dist(overflow_checks, evt, other)
    IN /\ ret = NoCall
       /\ ret' = UtilReturn("spatial_rl_dist", r, r.val)
       /\ UNCHANGED <<sae, evt, other, snapshot, ring, eng, stage>>

Likeness ==
    LET r == likeness(evt, other)
    IN /\ ret = NoCall
       /\ ret' = UtilReturn("likeness", r, [likeness |-> r.val, reads |-> r.reads])
       /\ UNCHANGED <<sae, evt, other, snapshot, ring, eng, stage>>

NextUtil ==
    \/ \E a \in UtilEvents, b \in UtilEvents : Pick(a, b)
    \/ \E overflow_checks \in BOOLEAN : SpatialDist2(overflow_checks)
    \/ \E overflow_checks \in BOOLEAN : SpatialRlDist(overflow_checks)
    \/ Likeness
    \/ Discard

SpecUtil == InitUtil /\ [][NextUtil]_vars

(***************************************************************************)
(* arcstar_expand step by step, on a slice in hand: find_freshest_in_circle *)
(* first, then one action per iteration of the two loops.                  *)
(***************************************************************************)
\* coefficients of the generated patterns
MaxPattern == 4

Slice(vals, circle_dim, min_arc_size) ==
    [vals |-> vals, circle_dim |-> circle_dim, min_arc_size |-> min_arc_size]

\* k positions from s on, cyclically, hold v; the others hold 0
ArcRing(dim, s, k, v) ==
    [i \in 0..(dim - 1) |-> IF (i + dim - s) % dim < k THEN v ELSE 0]

\* an arc of k1 positions from s on holds v1, k2 positions inside it, from
\* s + o on, hold v2, and the positions outside hold v0
NestedRing(dim, s, k1, o, k2, v0, v1, v2) ==
    [i \in 0..(dim - 1) |->
        IF (i + dim - s) % dim < k1
        THEN (IF (i + dim - s) % dim >= o /\ (i + dim - s) % dim < o + k2 THEN v2 ELSE v1)
        ELSE v0]

\* timestamps 0..MaxTime in a quadratic pattern of period 11
PatternRing(dim, a, b, c) ==
    [i \in 0..(dim - 1) |-> ((a * i * i + b * i + c) % 11) % (MaxTime + 1)]

\* the rings the tests sample: around (4, 4) of every fixture
FixtureRing3(a) == c3_vals_for_point(init_matrix_from_static_sae_array(a), 4, 4).vals
FixtureRing4(a) == c4_vals_for_point(init_matrix_from_static_sae_array(a), 4, 4).vals

RingVals(dim) ==
    { ArcRing(dim, s, k, v) : s \in 0..(dim - 1), k \in 0..dim, v \in 1..MaxTime }
    \cup
    { NestedRing(dim, q[1], q[2], q[3], q[4], q[5], q[6], q[7]) :
        q \in { r \in {0, dim - 2} \X (0..dim) \X (0..dim) \X (0..dim)
                       \X (0..MaxTime) \X (0..MaxTime) \X (0..MaxTime) :
                    /\ r[3] + r[4] <= r[2]
                    /\ r[5] <= r[6] /\ r[6] < r[7] } }
    \cup
    { PatternRing(dim, q[1], q[2], q[3]) :
        q \in (0..MaxPattern) \X (0..MaxPattern) \X (0..MaxPattern) }

\* the two ways arcstar_check_for_point calls the engine
Rings ==
    { Slice(vals, CIRCLE3_DIM, CIRCLE3_MIN_ARC_LEN) :
        vals \in RingVals(CIRCLE3_DIM) \cup { FixtureRing3(a) : a \in StaticSaeArrays } }
    \cup
    { Slice(vals, CIRCLE4_DIM, CIRCLE4_MIN_ARC_LEN) :
        vals \in RingVals(CIRCLE4_DIM) \cup { FixtureRing4(a) : a \in StaticSaeArrays } }

\* the side the comparison arc_cw_val > arc_ccw_val picks, and its cursor
cw_wins(st) == st.arc_cw_val > st.arc_ccw_val
winning_idx(st) == IF cw_wins(st) THEN st.cw_idx ELSE st.ccw_idx
\* the test of the second loop: the winning side's value >= segment_oldest
growth_condition(st) ==
    IF cw_wins(st) THEN st.arc_cw_val >= st.segment_oldest
    ELSE st.arc_ccw_val >= st.segment_oldest

InitRing ==
    /\ sae = init_matrix_from_static_sae_array(SAE_BLANK)
    /\ snapshot = sae
    /\ evt = SaeEvent_new
    /\ other = SaeEvent_new
    /\ ret = NoCall
    /\ ring \in Rings
    /\ eng = NotRunning
    /\ stage = NotRunning

\* let (freshest_idx, freshest_val) = find_freshest_in_circle(slice)
FindFreshest ==
    /\ eng = NotRunning
    /\ ring # NoRing
    /\ eng' = [pc |-> "found",
               freshest |-> find_freshest_in_circle(ring.vals, ring.circle_dim)]
    /\ UNCHANGED <<sae, evt, other, ret, snapshot, ring, stage>>

\* arcstar_expand is entered: its locals before the first loop
ExpandEnter ==
    /\ eng.pc = "found"
    /\ eng' = [pc |-> "loop",
               newest_idx |-> eng.freshest.idx,
               iteration |-> 1,
               st |-> expand_init(ring.vals, ring.circle_dim, ring.min_arc_size,
                                  eng.freshest.idx),
               selected |-> <<>>,
               grown |-> 0]
    /\ UNCHANGED <<sae, evt, other, ret, snapshot, ring, stage>>

\* one iteration of for _iteration in 1..min_arc_size
BootstrapStep ==
    /\ eng.pc = "loop"
    /\ eng.iteration < ring.min_arc_size
    /\ eng' = [eng EXCEPT !.iteration = @ + 1,
                          !.st = bootstrap_step(ring.vals, ring.circle_dim, eng.st),
                          !.selected = Append(@, winning_idx(eng.st))]
    /\ UNCHANGED <<sae, evt, other, ret, snapshot, ring, stage>>

\* one iteration of for iteration in min_arc_size..circle_dim
GrowthStep ==
    /\ eng.pc = "loop"
    /\ eng.iteration >= ring.min_arc_size
    /\ eng.iteration < ring.circle_dim
    /\ eng' = [eng EXCEPT !.iteration = @ + 1,
                          !.st = growth_step(ring.vals, ring.circle_dim, eng.st,
                                             eng.iteration),
                          !.selected = Append(@, winning_idx(eng.st)),
                          !.grown = IF growth_condition(eng.st) THEN @ + 1 ELSE @]
    /\ UNCHANGED <<sae, evt, other, ret, snapshot, ring, stage>>

\* the second loop is over: freshest_arc_size is returned
ExpandReturn ==
    /\ eng.pc = "loop"
    /\ eng.iteration >= ring.circle_dim
    /\ eng' = [eng EXCEPT !.pc = "returned"]
    /\ ret' = [op |-> "arcstar_expand", status |-> "returned",
               value |-> Some(eng.st.freshest_arc_size)]
    /\ UNCHANGED <<sae, evt, other, snapshot, ring, stage>>

NextRing ==
    \/ FindFreshest
    \/ ExpandEnter
    \/ BootstrapStep
    \/ GrowthStep
    \/ ExpandReturn

SpecRing == InitRing /\ [][NextRing]_vars

(***************************************************************************)
(* detect_and_compute_one stage by stage: the border filter, then each     *)
(* ring sampled and judged, then the descriptor. stage holds the position  *)
(* and the locals of the call; ret is set when the call ends.              *)
(***************************************************************************)
\* the border filter of arcstar_is_event_corner testing rows only
border_filter_rows_only(overflow_checks, sae_pol, e) ==
    LET row_limit == usize_sub(overflow_checks, sae_pol.nrows, BORDER_INSET)
    IN IF e.row < BORDER_INSET THEN "reject"
       ELSE IF row_limit.panic THEN "panic"
       ELSE IF e.row >= row_limit.val THEN "reject"
       ELSE "pass"

\* the border filter of arcstar_is_event_corner, left to right with
\* short-circuit: "reject" (return false), "panic" (a subtraction overflowed
\* in a build that checks), or "pass"
border_filter(overflow_checks, sae_pol, e) ==
    LET col_limit == usize_sub(overflow_checks, sae_pol.ncols, BORDER_INSET)
        row_limit == usize_sub(overflow_checks, sae_pol.nrows, BORDER_INSET)
    IN IF e.col < BORDER_INSET THEN "reject"
       ELSE IF col_limit.panic THEN "panic"
       ELSE IF e.col >= col_limit.val THEN "reject"
       ELSE IF e.row < BORDER_INSET THEN "reject"
       ELSE IF row_limit.panic THEN "panic"
       ELSE IF e.row >= row_limit.val THEN "reject"
       ELSE "pass"

\* freshest_c3_val.max(freshest_c4_val)
freshest_seg_val_of(freshest_c3, freshest_c4) ==
    IF freshest_c3.val >= freshest_c4.val THEN freshest_c3.val ELSE freshest_c4.val

\* surfaces of the staged call: the fixtures, stripes of every size, wedges
\* on the square sizes that have an interior
StageSurfaces ==
    FixtureSurfaces
    \cup UNION { StripeSurfaces(nrows, ncols) :
                   <<nrows, ncols>> \in (0..MaxDim) \X (0..MaxDim) }
    \cup UNION { WedgeSurfaces(dim, dim) : dim \in InteriorDims }

\* the locals of a call that has cloned the event, before any ring is sampled
Entered(out_evt) ==
    [pc |-> "entered", out_evt |-> out_evt, c3 |-> None, c4 |-> None,
     freshest_c3 |-> None, freshest_c4 |-> None,
     c3_segment_size |-> None, c4_segment_size |-> None, freshest_seg_val |-> None]

PanickedCall == [op |-> "detect", status |-> "panicked", value |-> None]
ReturnedCall(value) == [op |-> "detect", status |-> "returned", value |-> value]

InitStages ==
    /\ sae \in StageSurfaces
    /\ snapshot = sae
    /\ evt \in Events(sae)
    /\ other = SaeEvent_new
    /\ ret = NoCall
    /\ ring = NoRing
    /\ eng = NotRunning
    /\ stage = NotRunning

\* detect_and_compute_one clones the event; arcstar_is_event_corner filters
\* out the border
BorderFilter(overflow_checks) ==
    LET b == border_filter(overflow_checks, sae, Clone(evt))
    IN /\ stage = NotRunning
       /\ ret = NoCall
       /\ IF b = "pass"
          THEN stage' = Entered(Clone(evt)) /\ ret' = ret
          ELSE IF b = "reject"
          THEN stage' = [Entered(Clone(evt)) EXCEPT !.pc = "rejected_border"]
               /\ ret' = ReturnedCall(None)
          ELSE stage' = [Entered(Clone(evt)) EXCEPT !.pc = "panicked"]
               /\ ret' = PanickedCall
       /\ UNCHANGED <<sae, evt, other, snapshot, ring, eng>>

\* let c3_vals = c3_vals_for_point(sae_pol, row, col)
SampleRing3 ==
    LET c3 == c3_vals_for_point(sae, stage.out_evt.row, stage.out_evt.col)
    IN /\ stage.pc = "entered"
       /\ IF c3.panic
          THEN stage' = [stage EXCEPT !.pc = "panicked"] /\ ret' = PanickedCall
          ELSE stage' = [stage EXCEPT !.pc = "sampled3", !.c3 = Some(c3.vals)]
               /\ ret' = ret
       /\ UNCHANGED <<sae, evt, other, snapshot, ring, eng>>

\* find_freshest_in_circle, arcstar_expand and the validity test on ring 3
JudgeRing3 ==
    LET c3_vals == unwrap(stage.c3)
        freshest_c3 == find_freshest_in_circle(c3_vals, CIRCLE3_DIM)
        size == arcstar_expand(c3_vals, CIRCLE3_DIM, CIRCLE3_MIN_ARC_LEN, freshest_c3.idx)
    IN /\ stage.pc = "sampled3"
       /\ stage' = [stage EXCEPT
                       !.pc = IF c3_arc_valid(size) THEN "valid3" ELSE "rejected_ring3",
                       !.freshest_c3 = Some(freshest_c3),
                       !.c3_segment_size = Some(size)]
       /\ ret' = IF c3_arc_valid(size) THEN ret ELSE ReturnedCall(None)
       /\ UNCHANGED <<sae, evt, other, snapshot, ring, eng>>

\* let c4_vals = c4_vals_for_point(sae_pol, row, col)
SampleRing4 ==
    LET c4 == c4_vals_for_point(sae, stage.out_evt.row, stage.out_evt.col)
    IN /\ stage.pc = "valid3"
       /\ IF c4.panic
          THEN stage' = [stage EXCEPT !.pc = "panicked"] /\ ret' = PanickedCall
          ELSE stage' = [stage EXCEPT !.pc = "sampled4", !.c4 = Some(c4.vals)]
               /\ ret' = ret
       /\ UNCHANGED <<sae, evt, other, snapshot, ring, eng>>

\* find_freshest_in_circle, arcstar_expand and the validity test on ring 4
JudgeRing4 ==
    LET c4_vals == unwrap(stage.c4)
        freshest_c4 == find_freshest_in_circle(c4_vals, CIRCLE4_DIM)
        size == arcstar_expand(c4_vals, CIRCLE4_DIM, CIRCLE4_MIN_ARC_LEN, freshest_c4.idx)
    IN /\ stage.pc = "sampled4"
       /\ stage' = [stage EXCEPT
                       !.pc = IF c4_arc_valid(size) THEN "valid4" ELSE "rejected_ring4",
                       !.freshest_c4 = Some(freshest_c4),
                       !.c4_segment_size = Some(size)]
       /\ ret' = IF c4_arc_valid(size) THEN ret ELSE ReturnedCall(None)
       /\ UNCHANGED <<sae, evt, other, snapshot, ring, eng>>

\* the descriptor is computed and attached; the clone is returned
BuildDescriptor ==
    LET d == compute_descriptor(unwrap(stage.c3), unwrap(stage.freshest_c3),
                                unwrap(stage.c4), unwrap(stage.freshest_c4))
        out_evt == [stage.out_evt EXCEPT !.norm_descriptor = Some(d)]
    IN /\ stage.pc = "valid4"
       /\ stage' = [stage EXCEPT
                       !.pc = "accepted",
                       !.out_evt = out_evt,
                       !.freshest_seg_val =
                           Some(freshest_seg_val_of(unwrap(stage.freshest_c3),
                                                    unwrap(stage.freshest_c4)))]
       /\ ret' = ReturnedCall(Some(out_evt))
       /\ UNCHANGED <<sae, evt, other, snapshot, ring, eng>>

NextStages ==
    \/ \E overflow_checks \in BOOLEAN : BorderFilter(overflow_checks)
    \/ SampleRing3
    \/ JudgeRing3
    \/ SampleRing4
    \/ JudgeRing4
    \/ BuildDescriptor

SpecStages == InitStages /\ [][NextStages]_vars

(***************************************************************************)
(* Properties of the kernel. The predicates below read the caller's state: *)
(* after a call, evt is the event the call was made on and ret is what it  *)
(* gave back.                                                              *)
(***************************************************************************)
Called == ret.op = "detect"
RejectedNow == ret.status = "returned" /\ ret.value = None
AcceptedNow == ret.status = "returned" /\ ret.value # None

InSurface == evt.row < sae.nrows /\ evt.col < sae.ncols
NearEdge(x, dim) == x < 4 \/ x >= dim - 4
Interior ==
    /\ InSurface
    /\ ~NearEdge(evt.row, sae.nrows)
    /\ ~NearEdge(evt.col, sae.ncols)

\* the surface's value at the i-th offset of a table around the event's pixel
RingCell(gen, i) == sae.data[<<evt.row + gen[i + 1][1], evt.col + gen[i + 1][2]>>]

\* C1. Border invariant: a call on an in-surface pixel whose row or column is
\* below 4 or at least dimension - 4 returns no value, whatever the surface
\* holds; on a surface of at most 8 rows or at most 8 columns this is every
\* in-surface pixel.
BorderInvariant ==
    /\ (Called /\ InSurface
           /\ (NearEdge(evt.row, sae.nrows) \/ NearEdge(evt.col, sae.ncols)))
         => RejectedNow
    /\ (Called /\ InSurface /\ (sae.nrows <= 8 \/ sae.ncols <= 8))
         => RejectedNow

\* a pixel on the first border row below the interior, over a non-zero cell,
\* was rejected
BorderWitness ==
    /\ Called /\ InSurface /\ RejectedNow
    /\ sae.nrows >= 9 /\ evt.row = sae.nrows - 4
    /\ ~NearEdge(evt.col, sae.ncols)
    /\ sae.data[<<evt.row, evt.col>>] > 0

\* C2. Totality: every call, on any surface and any event, ends by returning
\* (a corner or nothing); none ends in a panic.
Totality == Called => ret.status = "returned"

\* C3. Blank surface: a call on an interior pixel whose radius-3 ring holds
\* only 0 returns no value.
Ring3AllZero == \A i \in 0..15 : RingCell(CIRCLE3_GEN, i) = 0

BlankRingRejected == (Called /\ Interior /\ Ring3AllZero) => RejectedNow

\* rejected on an all-zero radius-3 ring although the radius-4 ring is not blank
BlankRingWitness ==
    /\ Called /\ Interior /\ Ring3AllZero /\ RejectedNow
    /\ \E i \in 0..19 : RingCell(CIRCLE4_GEN, i) > 0

\* C4. Rotational coverage: with the candidate at (4, 4), every corner fixture
\* of the tests is accepted and every bar, diagonal-bar and all-rays fixture
\* is rejected.
CornerFixtures ==
    { init_matrix_from_static_sae_array(a) : a \in
        { SAE_OUTSIDE_CORNER_NE, SAE_OUTSIDE_CORNER_SE, SAE_OUTSIDE_CORNER_SW,
          SAE_OUTSIDE_CORNER_NW, SAE_OUTSIDE_CORNER_SSE,
          SAE_OUTSIDE_CORNER_N, SAE_OUTSIDE_CORNER_S, SAE_OUTSIDE_CORNER_E,
          SAE_OUTSIDE_CORNER_W,
          SAE_INSIDE_CORNER_N, SAE_INSIDE_CORNER_S, SAE_INSIDE_CORNER_E,
          SAE_INSIDE_CORNER_W, SAE_INSIDE_CORNER_NE, SAE_INSIDE_CORNER_NW,
          SAE_INSIDE_CORNER_SE, SAE_INSIDE_CORNER_SW } }

NonCornerFixtures ==
    { init_matrix_from_static_sae_array(a) : a \in
        { SAE_BAR_VERT_THICK, SAE_BAR_VERT_THIN, SAE_CENTER_BAR_VERT_THICK,
          SAE_CENTER_BAR_VERT_THIN, SAE_BAR_HORIZ_THICK, SAE_BAR_HORIZ_THIN,
          SAE_CENTER_BAR_HORIZ_THICK, SAE_CENTER_BAR_HORIZ_THIN,
          SAE_DIAG_BAR_VERT_THIN, SAE_DIAG_BAR_NE_THIN, SAE_ALL_RAYS } }

AtCenter == evt.row = 4 /\ evt.col = 4

RotationalCoverage ==
    (Called /\ AtCenter) =>
        /\ sae \in CornerFixtures => AcceptedNow
        /\ sae \in NonCornerFixtures => RejectedNow

\* an inside corner, whose fresh arc is the long one, was accepted
RotationalWitness ==
    /\ Called /\ AtCenter /\ AcceptedNow
    /\ sae = init_matrix_from_static_sae_array(SAE_INSIDE_CORNER_W)

\* C5. Result shape: a call that returns gives a value exactly when the
\* event is classified as a corner; the value has the row, col, polarity and
\* timestamp of the input event and a descriptor of exactly 36 values, the one
\* this call computed, never the one the input event carried.
ResultShape ==
    (Called /\ ret.status = "returned") =>
        LET classified == arcstar_is_event_corner(FALSE, sae, evt)
        IN /\ is_some(ret.value) <=> classified.corner
           /\ is_some(ret.value) =>
                LET out == unwrap(ret.value)
                IN /\ out.row = evt.row
                   /\ out.col = evt.col
                   /\ out.polarity = evt.polarity
                   /\ out.timestamp = evt.timestamp
                   /\ is_some(out.norm_descriptor)
                   /\ DOMAIN unwrap(out.norm_descriptor) = 0..35
                   /\ out.norm_descriptor = classified.evt.norm_descriptor
                   /\ out.norm_descriptor # evt.norm_descriptor

\* a corner was returned for an event that came with a descriptor, a polarity
\* and a timestamp of its own
ResultShapeWitness ==
    /\ Called /\ AcceptedNow
    /\ evt.polarity = 1 /\ evt.timestamp > 0
    /\ is_some(evt.norm_descriptor)

\* C6. Frame: a call leaves the surface and the caller's event as they were;
\* so every call, whatever calls came before it, gives what it gives on the
\* surface as first handed over.
DetectStep == ret.status = "idle" /\ ret'.op = "detect"

AloneResult ==
    Called => \E overflow_checks \in BOOLEAN :
                  ret = detect_and_compute_one(overflow_checks, snapshot, evt).ret

Ring3(i) == RingCell(CIRCLE3_GEN, i)
Ring4(j) == RingCell(CIRCLE4_GEN, j)
MaxOf(S) == CHOOSE v \in S : \A w \in S : w <= v
Max3 == MaxOf({ Ring3(i) : i \in 0..15 })
Max4 == MaxOf({ Ring4(j) : j \in 0..19 })
First3 == CHOOSE i \in 0..15 : Ring3(i) = Max3 /\ \A k \in 0..(i - 1) : Ring3(k) < Max3
First4 == CHOOSE j \in 0..19 : Ring4(j) = Max4 /\ \A k \in 0..(j - 1) : Ring4(k) < Max4
FreshestOfBoth == IF Max3 >= Max4 THEN Max3 ELSE Max4
\* the f32 x is the ratio v / f
IsRatio(x, v, f) == x.den # 0 /\ x.num * f = v * x.den
IsOne(x) == x.den # 0 /\ x.num = x.den
ReturnedDescriptor == unwrap(unwrap(ret.value).norm_descriptor)

DescriptorLayout ==
    (Called /\ AcceptedNow) =>
        LET d == ReturnedDescriptor
        IN /\ \A i \in 0..15 :
                 IsRatio(d[i], Ring3((First3 + i) % 16), FreshestOfBoth)
           /\ \A j \in 0..19 :
                 IsRatio(d[16 + j], Ring4((First4 + j) % 20), FreshestOfBoth)
           /\ IsOne(d[0]) \/ IsOne(d[16])
           /\ \A k \in 0..35 : d[k].den > 0 /\ d[k].num <= d[k].den

\* accepted with the radius-4 ring fresher than the radius-3 ring and the
\* radius-3 maximum not at index 0: entry 16 is 1, entry 0 is below 1
DescriptorLayoutWitness ==
    /\ Called /\ AcceptedNow
    /\ Max4 > Max3 /\ First3 # 0 /\ First4 # 0
    /\ IsOne(ReturnedDescriptor[16]) /\ ~IsOne(ReturnedDescriptor[0])

\* C8 as stated. Descriptor range: each of the 36 values is above 0 and at
\* most 1.
DescriptorRangeHalfOpen ==
    (Called /\ AcceptedNow) =>
        \A k \in 0..35 :
            LET x == ReturnedDescriptor[k]
            IN x.den > 0 /\ 0 < x.num /\ x.num <= x.den

\* C8 as amended. Descriptor range: each of the 36 values is at least 0 and
\* at most 1; a ring pixel that holds 0 gives the value 0.
DescriptorRangeClosed ==
    (Called /\ AcceptedNow) =>
        \A k \in 0..35 :
            LET x == ReturnedDescriptor[k]
            IN x.den > 0 /\ 0 <= x.num /\ x.num <= x.den

\* a returned descriptor holds the value 0 and a value strictly between 0 and 1
DescriptorRangeWitness ==
    /\ Called /\ AcceptedNow
    /\ \E k \in 0..35 : ReturnedDescriptor[k].num = 0
    /\ \E k \in 0..35 : LET x == ReturnedDescriptor[k] IN 0 < x.num /\ x.num < x.den

(***************************************************************************)
(* Properties of the utilities. After a call evt and other are the two     *)
(* events it was made on, in that order.                                   *)
(***************************************************************************)
DRow == IF evt.row >= other.row THEN evt.row - other.row ELSE other.row - evt.row
DCol == IF evt.col >= other.col THEN evt.col - other.col ELSE other.col - evt.col
SameCoordinates == evt.row = other.row /\ evt.col = other.col

\* d * d for d below 2^16, written hi * 65536 + lo with lo below 65536
Square(d) ==
    LET q == d \div 256
        r == d % 256
        low == 2 * q * r * 256 + r * r
    IN [hi |-> q * q + low \div 65536, lo |-> low % 65536]

\* DRow^2 + DCol^2, written hi * 65536 + lo; it fits a u32 when hi < 65536
SquareSum ==
    LET low == Square(DRow).lo + Square(DCol).lo
    IN [hi |-> Square(DRow).hi + Square(DCol).hi + low \div 65536, lo |-> low % 65536]

IsZero(v) == v.hi = 0 /\ v.lo = 0

\* C9 as stated. Distance exactness: on every pair of events spatial_dist_2
\* returns (row_a - row_b)^2 + (col_a - col_b)^2 as a u32, with no overflow
\* and no wrap-around, and spatial_rl_dist returns |row_a - row_b| +
\* |col_a - col_b|; either result is the one of the call with the events
\* swapped, and is 0 exactly when the events have the same row and column.
DistanceExact ==
    /\ ret.op = "spatial_dist_2" =>
          /\ ret.status = "returned"
          /\ ret.value = SquareSum
          /\ \A overflow_checks \in BOOLEAN :
                spatial_dist_2(overflow_checks, evt, other)
                    = spatial_dist_2(overflow_checks, other, evt)
          /\ IsZero(ret.value) <=> SameCoordinates
    /\ ret.op = "spatial_rl_dist" =>
          /\ ret.status = "returned"
          /\ ret.value = U32(DRow + DCol)
          /\ \A overflow_checks \in BOOLEAN :
                spatial_rl_dist(overflow_checks, evt, other)
                    = spatial_rl_dist(overflow_checks, other, evt)
          /\ IsZero(ret.value) <=> SameCoordinates

\* C10. Likeness with a missing descriptor: the call returns; when either
\* event has no descriptor it returns 0.0 and has read no descriptor value;
\* and the call with the events swapped gives the same result.
LikenessMissing ==
    ret.op = "likeness" =>
        /\ ret.status = "returned"
        /\ (is_none(evt.norm_descriptor) \/ is_none(other.norm_descriptor)) =>
              (ret.value.likeness = F32(0) /\ ret.value.reads = 0)
        /\ ~likeness(other, evt).panic
        /\ likeness(other, evt).val = ret.value.likeness

\* a call on an event without descriptor and one with a descriptor, in either
\* order, has returned 0.0
LikenessMissingWitness ==
    /\ ret.op = "likeness" /\ ret.status = "returned"
    /\ is_none(evt.norm_descriptor) # is_none(other.norm_descriptor)
    /\ ret.value.likeness = F32(0)

(***************************************************************************)
(* Properties of the engine, read off a running arcstar_expand: ring is    *)
(* the slice, eng.selected the cursor positions picked so far, in order.   *)
(***************************************************************************)
RingIdx == 0..(ring.circle_dim - 1)
RingMax == MaxOf({ ring.vals[i] : i \in RingIdx })
FirstOfRingMax ==
    CHOOSE i \in RingIdx :
        ring.vals[i] = RingMax /\ \A k \in 0..(i - 1) : ring.vals[k] < RingMax

\* C11. Tie-break rule: find_freshest_in_circle returns the maximum of the
\* slice with the lowest index that holds it; on an all-zero slice it returns
\* index 0 and value 0.
TieBreak ==
    eng.pc = "found" =>
        /\ eng.freshest.val = RingMax
        /\ eng.freshest.idx = FirstOfRingMax
        /\ (\A i \in RingIdx : ring.vals[i] = 0) =>
              (eng.freshest.idx = 0 /\ eng.freshest.val = 0)

\* the maximum is held at several positions, none of them position 0, and the
\* first of them was returned
TieBreakWitness ==
    /\ eng.pc = "found"
    /\ ring.vals[0] < RingMax
    /\ Cardinality({ i \in RingIdx : ring.vals[i] = RingMax }) >= 2
    /\ eng.freshest.idx = FirstOfRingMax

\* what a finished arcstar_expand returned, and the positions picked at the
\* steps from..to
Returned == eng.pc = "returned"
ArcLength == eng.st.freshest_arc_size
Picked(from, to) == { eng.selected[t] : t \in from..to }
\* the positions a, a + 1, .. a + len - 1 around the ring
CyclicArc(a, len) == { (a + j) % ring.circle_dim : j \in 0..(len - 1) }

\* C12. Dominant contiguous arc: when arcstar_expand returns L, the freshest
\* position and the positions picked at steps 1..L-1 form a cyclically
\* contiguous arc of exactly L positions; each of those picked positions holds
\* a timestamp >= the final segment_oldest, and each position picked at steps
\* L..N-1 holds a timestamp < the final segment_oldest.
DominantArc ==
    Returned =>
        LET arc == {eng.newest_idx} \cup Picked(1, ArcLength - 1)
        IN /\ Cardinality(arc) = ArcLength
           /\ \E a \in RingIdx : arc = CyclicArc(a, ArcLength)
           /\ \A t \in 1..(ArcLength - 1) :
                 ring.vals[eng.selected[t]] >= eng.st.segment_oldest
           /\ \A t \in ArcLength..(ring.circle_dim - 1) :
                 ring.vals[eng.selected[t]] < eng.st.segment_oldest

\* an arc longer than the minimum and shorter than the ring, grown on both
\* sides of the freshest position, with a non-zero timestamp left outside
DominantArcWitness ==
    /\ Returned
    /\ ArcLength > ring.min_arc_size /\ ArcLength < ring.circle_dim
    /\ (eng.newest_idx + 1) % ring.circle_dim \in Picked(1, ArcLength - 1)
    /\ (eng.newest_idx + ring.circle_dim - 1) % ring.circle_dim \in Picked(1, ArcLength - 1)
    /\ \E t \in ArcLength..(ring.circle_dim - 1) : ring.vals[eng.selected[t]] > 0

\* C15. Recorded arc length is monotone and bounded: in a running
\* arcstar_expand no step lowers the recorded arc length or raises
\* segment_oldest; the recorded length is Lmin until the second loop, stays
\* within Lmin..N, and the returned length is Lmin exactly when no step of the
\* second loop passed the test value >= segment_oldest.
InLoops == eng.pc \in {"loop", "returned"}

ArcLengthBounds ==
    InLoops =>
        /\ ArcLength >= ring.min_arc_size /\ ArcLength <= ring.circle_dim
        /\ eng.iteration <= ring.min_arc_size => ArcLength = ring.min_arc_size
        /\ ArcLength = ring.min_arc_size <=> eng.grown = 0

ArcLengthMonotone ==
    /\ [][(InLoops /\ eng'.pc \in {"loop", "returned"}) =>
             /\ eng'.st.freshest_arc_size >= eng.st.freshest_arc_size
             /\ eng'.st.segment_oldest <= eng.st.segment_oldest]_vars
    /\ []ArcLengthBounds

\* the second loop has raised the recorded length and then left it alone at a
\* later step
ArcLengthWitness ==
    /\ eng.pc = "loop"
    /\ eng.grown > 0
    /\ ArcLength > ring.min_arc_size
    /\ eng.iteration > ArcLength

\* C16. Bounded scan: a running arcstar_expand has made iteration - 1 picks,
\* can always take its next step until it returns, and returns after exactly
\* N - 1 picks (Lmin - 1 in the first loop, N - Lmin in the second); both
\* cursors stay within 0..N-1; no position is picked twice and the freshest
\* position is never picked, so the N - 1 picks are the N - 1 other positions.
BoundedScan ==
    /\ Returned \/ ENABLED NextRing
    /\ InLoops =>
          /\ eng.iteration >= 1 /\ eng.iteration <= ring.circle_dim
          /\ Len(eng.selected) = eng.iteration - 1
          /\ eng.st.cw_idx \in RingIdx /\ eng.st.ccw_idx \in RingIdx
          /\ Cardinality(Picked(1, Len(eng.selected))) = Len(eng.selected)
          /\ eng.newest_idx \notin Picked(1, Len(eng.selected))
    /\ Returned =>
          /\ Len(eng.selected) = ring.circle_dim - 1
          /\ Picked(1, ring.circle_dim - 1) = RingIdx \ {eng.newest_idx}
          /\ ret.value = Some(arcstar_expand(ring.vals, ring.circle_dim,
                                             ring.min_arc_size, eng.newest_idx))

\* a scan of the 20-position ring has returned after picks on both sides
BoundedScanWitness ==
    /\ Returned
    /\ ring.circle_dim = CIRCLE4_DIM
    /\ Len(eng.selected) = CIRCLE4_DIM - 1
    /\ (eng.newest_idx + 2) % CIRCLE4_DIM \in Picked(1, CIRCLE4_DIM - 1)
    /\ eng.selected[1] = (eng.newest_idx + CIRCLE4_DIM - 1) % CIRCLE4_DIM

\* the positions of the ring that hold a non-zero timestamp
FreshPositions == { i \in RingIdx : ring.vals[i] > 0 }
\* they hold one common value and are cyclically contiguous
SingleArc ==
    /\ \A i, j \in FreshPositions : ring.vals[i] = ring.vals[j]
    /\ \E a \in RingIdx : FreshPositions = CyclicArc(a, Cardinality(FreshPositions))
\* the validity test arcstar_check_for_point applies to this ring's arc length
RingArcValid(len) ==
    IF ring.circle_dim = CIRCLE3_DIM THEN c3_arc_valid(len) ELSE c4_arc_valid(len)

\* C19. Single-arc rings: on a ring whose k non-zero positions are cyclically
\* contiguous and hold one value, arcstar_expand returns k when
\* Lmin <= k <= N - 1 and N when k < Lmin or k = N; the length N is invalid.
SingleArcLength ==
    (Returned /\ SingleArc) =>
        LET k == Cardinality(FreshPositions)
        IN IF k >= ring.min_arc_size /\ k <= ring.circle_dim - 1
           THEN ArcLength = k
           ELSE ArcLength = ring.circle_dim /\ ~RingArcValid(ArcLength)

\* an arc of two fresh positions that wraps around index 0 gave the full ring
SingleArcWitness ==
    /\ Returned /\ SingleArc
    /\ FreshPositions = {ring.circle_dim - 1, 0}
    /\ ArcLength = ring.circle_dim

\* the arc length limits arcstar_check_for_point uses with this ring
RingMaxArcLen ==
    IF ring.circle_dim = CIRCLE3_DIM THEN CIRCLE3_MAX_ARC_LEN ELSE CIRCLE4_MAX_ARC_LEN
ValidLengths ==
    IF ring.circle_dim = CIRCLE3_DIM THEN (3..6) \cup (10..13) ELSE (4..8) \cup (12..16)

\* C14. Validity predicate equals the documented acceptance test: on every
\* arc length arcstar_expand returns, and on every length Lmin..N, the
\* implemented test agrees with the documented one; ring 3 is valid exactly
\* for 3..6 and 10..13, ring 4 exactly for 4..8 and 12..16.
ValidityAsDocumented ==
    /\ Returned =>
          /\ ArcLength \in ring.min_arc_size..ring.circle_dim
          /\ RingArcValid(ArcLength) <=>
                documented_arc_valid(ring.circle_dim, ring.min_arc_size,
                                     RingMaxArcLen, ArcLength)
          /\ RingArcValid(ArcLength) <=> ArcLength \in ValidLengths
    /\ ring # NoRing =>
          \A len \in ring.min_arc_size..ring.circle_dim :
              /\ RingArcValid(len) <=>
                    documented_arc_valid(ring.circle_dim, ring.min_arc_size,
                                         RingMaxArcLen, len)
              /\ RingArcValid(len) <=> len \in ValidLengths

\* the radius-3 engine returned a length that is valid by the complement clause
ValidityWitness ==
    /\ Returned
    /\ ring.circle_dim = CIRCLE3_DIM
    /\ ArcLength \in 10..13
    /\ RingArcValid(ArcLength)

(***************************************************************************)
(* Properties of the staged call: sae and evt are the arguments, stage the *)
(* position and the locals, ret the outcome once the call has ended.       *)
(***************************************************************************)
Running == stage.pc # "idle"
\* the arc lengths of the two rings around the event's pixel, from the surface
ArcLength3 ==
    arcstar_expand([i \in 0..15 |-> Ring3(i)], CIRCLE3_DIM, CIRCLE3_MIN_ARC_LEN, First3)
ArcLength4 ==
    arcstar_expand([j \in 0..19 |-> Ring4(j)], CIRCLE4_DIM, CIRCLE4_MIN_ARC_LEN, First4)
Valid3 == ArcLength3 \in (3..6) \cup (10..13)
Valid4 == ArcLength4 \in (4..8) \cup (12..16)
DescriptorBuilt == stage.out_evt.norm_descriptor # evt.norm_descriptor

\* C13. Classifier decision order: a call that returns accepts exactly when
\* the pixel passes the border test and the radius-3 and the radius-4 arc
\* lengths are valid; no ring is sampled unless the border test passed, ring 4
\* is sampled only after ring 3 was found valid, and the descriptor is built
\* only after both rings were found valid. The outcome is the one of
\* detect_and_compute_one.
DecisionOrder ==
    /\ ret.status = "returned" =>
          (is_some(ret.value) <=> (Interior /\ Valid3 /\ Valid4))
    /\ Running =>
          /\ stage.pc = "rejected_border" => (is_none(stage.c3) /\ is_none(stage.c4))
          /\ is_some(stage.c3) => Interior
          /\ is_some(stage.c4) => (is_some(stage.c3) /\ Valid3)
          /\ stage.pc = "rejected_ring3" => (~Valid3 /\ is_none(stage.c4))
          /\ stage.pc = "rejected_ring4" => (Valid3 /\ ~Valid4)
          /\ DescriptorBuilt =>
                (stage.pc = "accepted" /\ is_some(stage.c4) /\ Valid3 /\ Valid4)
    /\ ret # NoCall =>
          \E overflow_checks \in BOOLEAN :
              ret = detect_and_compute_one(overflow_checks, sae, evt).ret

\* a call was rejected on ring 4 after ring 3 was found valid, with no
\* descriptor built
DecisionOrderWitness ==
    /\ stage.pc = "rejected_ring4"
    /\ is_some(stage.c3) /\ is_some(stage.c4)
    /\ ~DescriptorBuilt
    /\ ret = ReturnedCall(None)

\* the coordinates center + offset of a table, and the table's geometry
Sampled(gen, i) == <<evt.row + gen[i + 1][1], evt.col + gen[i + 1][2]>>
Abs(x) == IF x >= 0 THEN x ELSE -x
Chebyshev(o) == IF Abs(o[1]) >= Abs(o[2]) THEN Abs(o[1]) ELSE Abs(o[2])
DistinctWithinRadius(gen, dim, radius) ==
    /\ Len(gen) = dim
    /\ Cardinality({ gen[i] : i \in 1..dim }) = dim
    /\ \A i \in 1..dim : Chebyshev(gen[i]) <= radius
    /\ MaxOf({ Chebyshev(gen[i]) : i \in 1..dim }) = radius
    /\ gen[1] = <<0, radius>>
BorderPassed == Running /\ stage.pc # "rejected_border"

DenominatorPositive ==
    /\ stage.pc \in {"valid4", "accepted"} => FreshestOfBoth >= 1
    /\ stage.pc = "accepted" =>
          /\ unwrap(stage.freshest_seg_val) = FreshestOfBoth
          /\ unwrap(stage.freshest_seg_val) >= 1
          /\ \A k \in 0..35 : unwrap(stage.out_evt.norm_descriptor)[k] # NaN
    /\ (Running /\ is_some(stage.c3) /\ Ring3AllZero) =>
          (stage.pc \in {"sampled3", "rejected_ring3"} /\ ~DescriptorBuilt)

\* a descriptor was built with the smallest denominator, 1
DenominatorWitness ==
    /\ stage.pc = "accepted"
    /\ unwrap(stage.freshest_seg_val) = 1
    /\ \E k \in 0..35 : unwrap(stage.out_evt.norm_descriptor)[k] = F32(0)

====
